---- MODULE Spec2Model ----
(***************************************************************************)
(* Verification model of scripts/translate_docs.py: the markdown           *)
(* translation pipeline (translate_blocks, protect_terms / restore_terms,  *)
(* the table helpers), the asynchronous dispatcher (run_async,             *)
(* translate_file_async, translate_single_language), the front matter      *)
(* (split_front_matter, translate_front_matter,                            *)
(* add_metadata_to_front_matter), the written file,                        *)
(* build_translation_path, the headings (find_headers_with_numbers and the *)
(* manual heading translations), and of process_content_lines of           *)
(* scripts/sync_docs.py.                                                   *)
(*                                                                         *)
(* Text is a sequence of one-character strings.  The marker and            *)
(* placeholder tokens the code generates ("__EXCLUDE_COL_2__",             *)
(* "__PROTECTED_BACKTICK_0__", ...) and the entries of PROTECTED_TERMS are *)
(* single elements of such a sequence: the input alphabet holds no         *)
(* underscore and no fragment of a protected term, so every occurrence of  *)
(* one of them in a text is a whole occurrence.                            *)
(***************************************************************************)
EXTENDS Integers, Sequences, FiniteSets, TLC

(***************************************************************************)
(* Python string operations, as the code uses them.                        *)
(***************************************************************************)
NL == "\n"
Whitespace == {" ", NL}

StartsWith(s, p) == Len(p) <= Len(s) /\ SubSeq(s, 1, Len(p)) = p
EndsWith(s, p) == Len(p) <= Len(s) /\ SubSeq(s, Len(s) - Len(p) + 1, Len(s)) = p

RECURSIVE Find(_, _, _)
Find(s, sub, from) ==
    IF from + Len(sub) - 1 > Len(s) THEN 0
    ELSE IF SubSeq(s, from, from + Len(sub) - 1) = sub THEN from
    ELSE Find(s, sub, from + 1)

Contains(s, sub) == Find(s, sub, 1) # 0

HasChar(s, c) == \E i \in 1..Len(s) : s[i] = c

RECURSIVE Replace(_, _, _)
Replace(s, old, new) ==
    LET i == Find(s, old, 1)
    IN  IF i = 0 THEN s
        ELSE SubSeq(s, 1, i - 1) \o new
             \o Replace(SubSeq(s, i + Len(old), Len(s)), old, new)

RECURSIVE LStripChars(_, _)
LStripChars(s, chars) ==
    IF s # <<>> /\ s[1] \in chars THEN LStripChars(Tail(s), chars) ELSE s

RECURSIVE RStripChars(_, _)
RStripChars(s, chars) ==
    IF s # <<>> /\ s[Len(s)] \in chars
    THEN RStripChars(SubSeq(s, 1, Len(s) - 1), chars) ELSE s

Strip(s) == RStripChars(LStripChars(s, Whitespace), Whitespace)

RECURSIVE Split(_, _)
Split(s, sep) ==
    LET i == Find(s, <<sep>>, 1)
    IN  IF i = 0 THEN <<s>>
        ELSE <<SubSeq(s, 1, i - 1)>> \o Split(SubSeq(s, i + 1, Len(s)), sep)

RECURSIVE Join(_, _)
Join(parts, sep) ==
    IF parts = <<>> THEN <<>>
    ELSE IF Len(parts) = 1 THEN parts[1]
    ELSE parts[1] \o sep \o Join(Tail(parts), sep)

SplitLines(s) ==
    IF s = <<>> THEN <<>>
    ELSE LET parts == Split(s, NL)
         IN  IF parts[Len(parts)] = <<>> THEN SubSeq(parts, 1, Len(parts) - 1)
             ELSE parts

RECURSIVE Flatten(_)
Flatten(ss) == IF ss = <<>> THEN <<>> ELSE ss[1] \o Flatten(Tail(ss))

(***************************************************************************)
(* Tokens generated by the code.                                           *)
(***************************************************************************)
MaxCols == 3
MaxLineNo == 9

ExcludeCol(n) == "__EXCLUDE_COL_" \o ToString(n) \o "__"
ExcludeColTokens == {ExcludeCol(n) : n \in 1..MaxCols}
EXCLUDE_HEADER == "__EXCLUDE_HEADER__"
TRANSLATE_HEADER == "__TRANSLATE_HEADER__"
ExcludeTableLine(i) == "__EXCLUDE_TABLE_LINE_" \o ToString(i) \o "__"
ExcludeTableLineTokens == {ExcludeTableLine(i) : i \in 0..MaxLineNo}
Placeholder(kind, i) == "__PROTECTED_" \o kind \o "_" \o ToString(i) \o "__"
PlaceholderTokens ==
    {Placeholder(k, i) : k \in {"TERM", "EXCLUDE_COL", "BACKTICK"}, i \in 0..MaxLineNo}
MarkerTokens ==
    ExcludeColTokens \cup ExcludeTableLineTokens \cup {EXCLUDE_HEADER, TRANSLATE_HEADER}

\* the backtick character (SANY rejects a backtick inside a string literal)
BT == "[backtick]"
FENCE_PREFIX == <<BT, BT, BT>>

PROTECTED_TERMS ==
    << <<"Angry Data Scanner">>, <<"Angry Data Core">>, <<"AngryScan">>,
       <<"angryscan.org">>, <<"packetdima">>, <<"datascanner">> >>

(***************************************************************************)
(* The translation provider: stubs standing for GoogleTranslator.translate.*)
(* "up" upper-cases the text (and so returns every generated token         *)
(* unchanged), "id" returns its argument, "raise" raises, "none" returns   *)
(* None and "empty" returns the empty string.                              *)
(***************************************************************************)
LowerCase ==
    <<"a", "b", "c", "d", "e", "h", "l", "m", "n", "p", "q", "r", "s", "t", "y",
      "Angry Data Scanner", "Angry Data Core", "AngryScan",
      "angryscan.org", "packetdima", "datascanner">>
UpperCase ==
    <<"A", "B", "C", "D", "E", "H", "L", "M", "N", "P", "Q", "R", "S", "T", "Y",
      "ANGRY DATA SCANNER", "ANGRY DATA CORE", "ANGRYSCAN",
      "ANGRYSCAN.ORG", "PACKETDIMA", "DATASCANNER">>

Upper(c) ==
    IF \E i \in 1..Len(LowerCase) : LowerCase[i] = c
    THEN UpperCase[CHOOSE i \in 1..Len(LowerCase) : LowerCase[i] = c]
    ELSE c

UpperText(s) == [i \in 1..Len(s) |-> Upper(s[i])]

Translators == {"up", "id", "raise", "none", "empty"}

KeptByProvider(c) == c \notin PlaceholderTokens

\* "drop" answers with the text it was given less every placeholder
translate(kind, text) ==
    CASE kind = "up" -> [tag |-> "ok", val |-> UpperText(text)]
      [] kind = "drop" -> [tag |-> "ok", val |-> SelectSeq(text, KeptByProvider)]
      [] kind = "id" -> [tag |-> "ok", val |-> text]
      [] kind = "empty" -> [tag |-> "ok", val |-> <<>>]
      [] kind = "none" -> [tag |-> "none", val |-> <<>>]
      [] OTHER -> [tag |-> "raise", val |-> <<>>]

\* try: r = translator.translate(p) / except: r = p ; if r is None: r = p
TranslateOrKeep(kind, protected) ==
    LET r == translate(kind, protected)
    IN  IF r.tag = "ok" THEN r.val ELSE protected

(***************************************************************************)
(* protect_backticks, protect_terms, restore_terms.  A mapping is the set  *)
(* of the dict items, each [ph, rank, orig]; rank orders the placeholder *)
(* names as sorted() does for indices below ten (TERM > EXCLUDE_COL >      *)
(* BACKTICK, then the index).                                              *)
(***************************************************************************)
KindRank(kind) ==
    CASE kind = "TERM" -> 3 [] kind = "EXCLUDE_COL" -> 2 [] OTHER -> 1

Item(kind, i, orig) ==
    [ph |-> Placeholder(kind, i), rank |-> KindRank(kind) * 100 + i, orig |-> orig]

\* re.finditer of the backtick pattern: the contents of the matches, in order
RECURSIVE BacktickMatches(_)
BacktickMatches(text) ==
    LET i == Find(text, <<BT>>, 1)
        j == IF i = 0 THEN 0 ELSE Find(text, <<BT>>, i + 1)
    IN  IF j = 0 THEN <<>>
        ELSE <<SubSeq(text, i + 1, j - 1)>>
             \o BacktickMatches(SubSeq(text, j + 1, Len(text)))

RECURSIVE ProtectBackticksFrom(_, _, _, _)
ProtectBackticksFrom(matches, i, text, mapping) ==
    IF i > Len(matches) THEN [text |-> text, mapping |-> mapping]
    ELSE LET content == matches[i]
             quoted == <<BT>> \o content \o <<BT>>
         IN  IF Strip(content) # <<>>
             THEN ProtectBackticksFrom(matches, i + 1,
                      Replace(text, quoted, <<Placeholder("BACKTICK", i - 1)>>),
                      mapping \cup {Item("BACKTICK", i - 1, quoted)})
             ELSE ProtectBackticksFrom(matches, i + 1, text, mapping)

protect_backticks(text) ==
    ProtectBackticksFrom(BacktickMatches(text), 1, text, {})

\* the matches of __EXCLUDE_COL_(\d+)__(.*?)__EXCLUDE_COL_\1__, each replaced
\* by __PROTECTED_EXCLUDE_COL_<its index>__
RECURSIVE ProtectExcludeCols(_, _)
ProtectExcludeCols(text, k) ==
    IF text = <<>> THEN [text |-> <<>>, mapping |-> {}]
    ELSE LET j == IF text[1] \in ExcludeColTokens
                  THEN Find(text, <<text[1]>>, 2) ELSE 0
             ok == j # 0 /\ ~HasChar(SubSeq(text, 2, j - 1), NL)
             rest == IF ok THEN ProtectExcludeCols(SubSeq(text, j + 1, Len(text)), k + 1)
                     ELSE ProtectExcludeCols(Tail(text), k)
         IN  IF ok
             THEN [text |-> <<Placeholder("EXCLUDE_COL", k)>> \o rest.text,
                   mapping |-> rest.mapping
                               \cup {Item("EXCLUDE_COL", k, SubSeq(text, 1, j))}]
             ELSE [text |-> <<text[1]>> \o rest.text, mapping |-> rest.mapping]

RECURSIVE ProtectTermsFrom(_, _, _)
ProtectTermsFrom(i, text, mapping) ==
    IF i > Len(PROTECTED_TERMS) THEN [text |-> text, mapping |-> mapping]
    ELSE IF Contains(text, PROTECTED_TERMS[i])
         THEN ProtectTermsFrom(i + 1,
                  Replace(text, PROTECTED_TERMS[i], <<Placeholder("TERM", i - 1)>>),
                  mapping \cup {Item("TERM", i - 1, PROTECTED_TERMS[i])})
         ELSE ProtectTermsFrom(i + 1, text, mapping)

\* get_exclusion_config() is always {} (load_translation_exclusions), so the
\* css_classes and text_patterns loops protect nothing.
protect_terms(text) ==
    LET cols == ProtectExcludeCols(text, 0)
        ticks == protect_backticks(cols.text)
    IN  ProtectTermsFrom(1, ticks.text, cols.mapping \cup ticks.mapping)

RECURSIVE restore_terms(_, _)
restore_terms(text, mapping) ==
    IF mapping = {} THEN text
    ELSE LET e == CHOOSE x \in mapping : \A y \in mapping : y.rank <= x.rank
         IN  restore_terms(Replace(text, <<e.ph>>, e.orig), mapping \ {e})

(***************************************************************************)
(* Table helpers.                                                          *)
(***************************************************************************)
is_table_line(line) ==
    LET stripped == Strip(line)
    IN  /\ StartsWith(stripped, <<"|">>)
        /\ EndsWith(stripped, <<"|">>)
        /\ HasChar(SubSeq(stripped, 2, Len(stripped) - 1), "|")

parse_table_line(line) ==
    LET raw == Split(line, "|")
        parts == [i \in 1..Len(raw) |-> Strip(raw[i])]
        p1 == IF parts # <<>> /\ parts[1] = <<>> THEN Tail(parts) ELSE parts
    IN  IF p1 # <<>> /\ p1[Len(p1)] = <<>> THEN SubSeq(p1, 1, Len(p1) - 1) ELSE p1

process_table_line(line, exclude_columns) ==
    LET columns == parse_table_line(line)
        processed == [i \in 1..Len(columns) |->
                        IF i \in exclude_columns
                        THEN <<ExcludeCol(i)>> \o columns[i] \o <<ExcludeCol(i)>>
                        ELSE columns[i]]
    IN  IF exclude_columns = {} \/ columns = <<>> THEN line
        ELSE <<"|", " ">> \o Join(processed, <<" ", "|", " ">>) \o <<" ", "|">>

RECURSIVE restore_table_line(_)
restore_table_line(line) ==
    IF line = <<>> THEN <<>>
    ELSE LET j == IF line[1] \in ExcludeColTokens
                  THEN Find(line, <<line[1]>>, 2) ELSE 0
         IN  IF j # 0 /\ ~HasChar(SubSeq(line, 2, j - 1), NL)
             THEN SubSeq(line, 2, j - 1)
                  \o restore_table_line(SubSeq(line, j + 1, Len(line)))
             ELSE <<line[1]>> \o restore_table_line(Tail(line))

(***************************************************************************)
(* translate_blocks: the state of one call.                                *)
(*   src     original_lines_for_translation (text.splitlines())            *)
(*   lines   processed_lines                                               *)
(*   bpc     "start" before the table pass, "scan" in the main loop,       *)
(*           "done" after the final flush, "idle" when no call is modelled *)
(*   origin  for each element of translated, the index of the source line  *)
(*           it was produced from; bufIdx likewise for buffer              *)
(*   sent    the indices of the source lines of which any text was passed  *)
(*           to translator.translate                                       *)
(*   kinds   for each processed line, the branch of the loop body that the *)
(*           line alone selects (LineKind), computed once per line         *)
(***************************************************************************)
VARIABLES src, lines, table_configs, header_configs, translator, bpc, line_idx,
          translated, buffer, in_code, in_style_block, origin, bufIdx, sent, kinds

blockVars == <<src, lines, table_configs, header_configs, translator, bpc,
               line_idx, translated, buffer, in_code, in_style_block, origin, bufIdx, sent, kinds>>

\* the state of translate_blocks other than the translator stub
blockRest == <<src, lines, table_configs, header_configs, bpc, line_idx, translated, buffer,
               in_code, in_style_block, origin, bufIdx, sent, kinds>>

(***************************************************************************)
(* One span through protect_terms, the provider and restore_terms.         *)
(*   span_in    the text given to protect_terms                            *)
(*   span_text  the text as it stands, span_map the recorded mapping       *)
(*   spc        "input", "protected", "answered", "restored" ("idle" when  *)
(*              no span is modelled)                                       *)
(***************************************************************************)
VARIABLES span_in, span_text, span_map, spc

spanVars == <<span_in, span_text, span_map, spc>>

(***************************************************************************)
(* run_async: the documents, in batches, each translated to every target   *)
(* language by its own translate_single_language task.                     *)
(*   failing     the language codes whose translator.translate raises      *)
(*   doc_kind    per document: "title" (front matter with title and        *)
(*               description), "plain" (no front matter, no metadata),     *)
(*               "meta" (no front matter, a default metadata title)        *)
(*   targets     the list of language codes given to the run               *)
(*   unwritable  the output locations whose write raises                   *)
(*   originals   per source document, "untouched" or "rewritten"           *)
(*   rpc         "start", "launch", "gather", "closing", "finished"        *)
(*               ("idle" when not modelled)                                *)
(*   batch_start the index i of the loop over md_files                     *)
(*   dpc         per document, where translate_file_async stands           *)
(*   task        per document and language, where the task stands          *)
(*   permits     the value of translation_semaphore                        *)
(*   files       per output location, the file there                       *)
(*   writes      per output location, how often it was written             *)
(*   progress    the count of progress_bar                                 *)
(***************************************************************************)
VARIABLES failing, doc_kind, targets, unwritable, originals, rpc, batch_start,
          dpc, task, permits, files, writes, progress

asyncVars == <<failing, doc_kind, targets, unwritable, originals, rpc, batch_start,
               dpc, task, permits, files, writes, progress>>

(***************************************************************************)
(* The front matter of one document for one language:                      *)
(*   front_matter             the front matter of the source, as lines     *)
(*   file_metadata            the entry of the file in the metadata config *)
(*   translated_front_matter  the result                                   *)
(*   fpc                      "select", "done" ("idle" when not modelled)  *)
(***************************************************************************)
VARIABLES front_matter, file_metadata, translated_front_matter, fpc

frontVars == <<front_matter, file_metadata, translated_front_matter, fpc>>

(***************************************************************************)
(* The split and the reassembly of one document:                           *)
(*   content         the content of the source document                    *)
(*   split_result    what split_front_matter returns for it                *)
(*   out_front       the front matter that is written                      *)
(*   written         the content of the written file                       *)
(*   resplit_result  what split_front_matter returns for the written file  *)
(*   wpc             "split", "write", "resplit", "done" ("idle" when not  *)
(*                   modelled)                                             *)
(***************************************************************************)
VARIABLES content, split_result, out_front, written, resplit_result, wpc

splitVars == <<content, split_result, out_front, written, resplit_result, wpc>>

(***************************************************************************)
(* The output paths of one input path for two language codes:              *)
(*   in_path         the path of the source document                       *)
(*   lang_a, lang_b  two language codes                                    *)
(*   out_a, out_b    what build_translation_path returns for them          *)
(*   ppc             "build", "done" ("idle" when not modelled)            *)
(***************************************************************************)
VARIABLES in_path, lang_a, lang_b, out_a, out_b, ppc

pathVars == <<in_path, lang_a, lang_b, out_a, out_b, ppc>>

(***************************************************************************)
(* One call of find_headers_with_numbers.                                  *)
(*   head_lines        the lines given to the function                     *)
(*   h1_dict, h2_dict  the two dictionaries it returns                     *)
(*   hpc               "find", "done" ("idle" when not modelled)           *)
(***************************************************************************)
VARIABLES head_lines, h1_dict, h2_dict, hpc

headVars == <<head_lines, h1_dict, h2_dict, hpc>>

(***************************************************************************)
(* One call of process_content_lines (sync_docs.py).                       *)
(*   content_lines, remove_headers, skip_until_first_header,               *)
(*   process_translation_links   the argument and the configuration        *)
(*   skip_until_first_header_flag, in_removable_section, processed_lines   *)
(*                   the locals of the loop that are read again            *)
(*   content_idx     the position of the loop                              *)
(*   kept            for each element of processed_lines, the index of the *)
(*                   line of content_lines it was produced from            *)
(*   cpc             "scan", "done" ("idle" when not modelled)             *)
(***************************************************************************)
VARIABLES content_lines, remove_headers, skip_until_first_header,
          process_translation_links, skip_until_first_header_flag,
          in_removable_section, processed_lines, content_idx, kept, cpc

syncVars == <<content_lines, remove_headers, skip_until_first_header,
              process_translation_links, skip_until_first_header_flag,
              in_removable_section, processed_lines, content_idx, kept, cpc>>

fnVars == <<frontVars, splitVars, pathVars, headVars, syncVars>>

NoText == <<"[none]">>

Range(f) == {f[i] : i \in DOMAIN f}

(***************************************************************************)
(* Input documents: up to MaxSegs segments, a segment being one line or a  *)
(* three-row table.                                                        *)
(***************************************************************************)
MaxSegs == 2

LText == <<"a">>
LBlank == <<>>
LHtml == <<"<", "p", ">", "a", "<", "/", "p", ">">>
LStyleOpen == <<"<", "s", "t", "y", "l", "e", ">">>
LStyleClose == <<"<", "/", "s", "t", "y", "l", "e", ">">>
LQuote == <<">", " ", "a">>
LQuoteNested == <<">", ">", " ", "a">>
LHeading == <<"#", "#", " ", "t">>
LTitle == <<"#", " ", "h">>
LManual == <<"#", " ", "m">>
LManualByNumber == <<"#", " ", "n">>
RowAB == <<"|", " ", "a", " ", "|", " ", "b", " ", "|">>
RowSep == <<"|", " ", "-", " ", "|", " ", "-", " ", "|">>
RowCD == <<"|", " ", "c", " ", "|", " ", "d", " ", "|">>
RowBr == <<"|", " ", "c", "<", "b", "r", ">", " ", "|", " ", "d", " ", "|">>
RowABTight == <<"|", "a", "|", "b", "|">>
RowSepTight == <<"|", "-", "|", "-", "|">>
RowCDTight == <<"|", "c", "|", "d", "|">>

Segments ==
    { <<LText>>, <<LBlank>>, <<LHtml>>, <<FENCE_PREFIX>>, <<LStyleOpen>>,
      <<LStyleClose>>, <<LQuote>>, <<LQuoteNested>>, <<LHeading>>, <<LTitle>>,
      <<RowAB, RowSep, RowCD>>, <<RowAB, RowSep, RowBr>>,
      <<RowABTight, RowSepTight, RowCDTight>> }

Documents ==
    UNION {{Flatten(segs) : segs \in [1..n -> Segments]} : n \in 1..MaxSegs}

\* the entries of translation_config.yaml for a file: table_number = 0 and
\* match_by_header = NoText stand for an absent key
TableConfig(header, number, whole, cols, hdr) ==
    [match_by_header |-> header, table_number |-> number, exclude_table |-> whole,
     exclude_columns |-> cols, exclude_header |-> hdr]

ConfigChoices ==
    { <<>>,
      <<TableConfig(NoText, 1, FALSE, {2}, FALSE)>>,
      <<TableConfig(NoText, 1, FALSE, {2}, TRUE)>>,
      <<TableConfig(NoText, 1, FALSE, {}, TRUE)>>,
      <<TableConfig(NoText, 1, TRUE, {}, FALSE)>>,
      <<TableConfig(LHeading, 0, FALSE, {1, 2}, FALSE)>>,
      <<TableConfig(LHeading, 0, FALSE, {1, 2}, TRUE)>> }

(***************************************************************************)
(* The table pass of translate_blocks.                                     *)
(***************************************************************************)
RECURSIVE TableEnd(_, _)
TableEnd(ls, i) ==
    IF i <= Len(ls) /\ is_table_line(ls[i]) THEN TableEnd(ls, i + 1) ELSE i

\* <<start, end>> pairs, 1-based, end exclusive
RECURSIVE TableRangesFrom(_, _)
TableRangesFrom(ls, i) ==
    IF i > Len(ls) THEN <<>>
    ELSE IF is_table_line(ls[i])
         THEN LET e == TableEnd(ls, i + 1)
              IN  (IF e - i >= 2 THEN << <<i, e>> >> ELSE <<>>)
                  \o TableRangesFrom(ls, e)
         ELSE TableRangesFrom(ls, i + 1)

find_table_ranges(ls) == TableRangesFrom(ls, 1)

RECURSIVE PrecedingHeader(_, _)
PrecedingHeader(ls, i) ==
    IF i < 1 THEN NoText
    ELSE LET stripped == Strip(ls[i])
         IN  IF StartsWith(stripped, <<"#", "#", "#", " ">>)
                \/ StartsWith(stripped, <<"#", "#", " ">>) THEN stripped
             ELSE IF StartsWith(stripped, <<"#", " ">>) THEN NoText
             ELSE PrecedingHeader(ls, i - 1)

\* index of the first matching config, 0 for None
get_table_config_by_header(configs, header_text) ==
    IF \E k \in 1..Len(configs) : configs[k].match_by_header = header_text
    THEN CHOOSE k \in 1..Len(configs) :
            /\ configs[k].match_by_header = header_text
            /\ \A m \in 1..(k - 1) : configs[m].match_by_header # header_text
    ELSE 0

get_table_config_by_number(configs, table_number) ==
    IF \E k \in 1..Len(configs) : configs[k].table_number = table_number
    THEN CHOOSE k \in 1..Len(configs) :
            /\ configs[k].table_number = table_number
            /\ \A m \in 1..(k - 1) : configs[m].table_number # table_number
    ELSE 0

\* the config translate_blocks resolves for table number n of ls (0: none)
ResolvedConfig(ls, configs, n) ==
    LET start == find_table_ranges(ls)[n][1]
        header == PrecedingHeader(ls, start - 1)
        byHeader == IF header # NoText
                    THEN get_table_config_by_header(configs, header) ELSE 0
    IN  IF byHeader # 0 THEN byHeader ELSE get_table_config_by_number(configs, n)

SeparatorChars == {"-", ":", "|", " "}

\* processed_lines[i] after the table pass, for line i of table <<start, end>>
\* under config cfg
ProcessedTableLine(line, i, start, cfg) ==
    LET is_separator ==
            /\ i = start + 1
            /\ \/ Contains(line, <<"-", "-", "-">>)
               \/ \A k \in 1..Len(Strip(line)) : Strip(line)[k] \in SeparatorChars
        cols == process_table_line(line, cfg.exclude_columns)
    IN  IF cfg.exclude_table THEN <<ExcludeTableLine(i - 1)>>
        ELSE IF cfg.exclude_columns = {} THEN line
        ELSE IF is_separator THEN line
        ELSE IF i = start
             THEN IF ~cfg.exclude_header
                  THEN <<TRANSLATE_HEADER>> \o cols \o <<TRANSLATE_HEADER>>
                  ELSE <<EXCLUDE_HEADER>> \o cols \o <<EXCLUDE_HEADER>>
        ELSE cols

\* the number of the table holding line i, 0 if none
TableOf(ls, i) ==
    LET ranges == find_table_ranges(ls)
    IN  IF \E n \in 1..Len(ranges) : ranges[n][1] <= i /\ i < ranges[n][2]
        THEN CHOOSE n \in 1..Len(ranges) : ranges[n][1] <= i /\ i < ranges[n][2]
        ELSE 0

ProcessTables(ls, configs) ==
    [i \in 1..Len(ls) |->
        LET n == TableOf(ls, i)
            c == IF n = 0 THEN 0 ELSE ResolvedConfig(ls, configs, n)
        IN  IF c = 0 THEN ls[i]
            ELSE ProcessedTableLine(ls[i], i, find_table_ranges(ls)[n][1], configs[c])]

(***************************************************************************)
(* Headings and their manual translations.                                 *)
(***************************************************************************)
\* the level the tests of find_headers_with_numbers give a stripped line
HeadingLevelAnyDepth(stripped) ==
    IF StartsWith(stripped, <<"#", " ">>) THEN 1
    ELSE IF StartsWith(stripped, <<"#", "#">>) THEN 2
    ELSE 0

HeadingLevel(stripped) ==
    IF StartsWith(stripped, <<"#", " ">>) THEN 1
    ELSE IF StartsWith(stripped, <<"#", "#", " ">>) THEN 2
    ELSE 0

NoHeaders == [h1_dict |-> <<>>, h2_dict |-> <<>>]

\* h1_dict: number -> (index, text); h2_dict: h1 number -> number -> (index,
\* text), with a key only for the level-1 headings that have level-2 headings;
\* indices count from 0 as enumerate does
RECURSIVE HeadersFrom(_, _, _)
HeadersFrom(ls, i, acc) ==
    IF i > Len(ls) THEN acc
    ELSE LET stripped == Strip(ls[i])
             h1_counter == Len(acc.h1_dict)
             entry == <<i - 1, stripped>>
         IN  IF HeadingLevel(stripped) = 1
             THEN HeadersFrom(ls, i + 1, [acc EXCEPT !.h1_dict = Append(@, entry)])
             ELSE IF HeadingLevel(stripped) = 2 /\ h1_counter > 0
             THEN HeadersFrom(ls, i + 1,
                      [acc EXCEPT !.h2_dict =
                          IF h1_counter \in DOMAIN @
                          THEN [@ EXCEPT ![h1_counter] = Append(@, entry)]
                          ELSE @ @@ (h1_counter :> <<entry>>)])
             ELSE HeadersFrom(ls, i + 1, acc)

find_headers_with_numbers(ls) == HeadersFrom(ls, 1, NoHeaders)

\* an entry of translation.headers.files[file]: text = NoText and number = 0
\* stand for an absent key, manual is translations.get(language) for the
\* language of the call (NoText when there is none)
HeaderConfig(level, text, number, parent, manual) ==
    [level |-> level, text |-> text, number |-> number,
     parent_h1_number |-> parent, manual |-> manual]

MatchesText(config, level, text) ==
    config.level = level /\ config.text = text

MatchesNumber(config, level, h1_num, h2_num) ==
    /\ config.level = level
    /\ IF level = 1 THEN config.number = h1_num
       ELSE config.parent_h1_number = h1_num /\ config.number = h2_num

\* the loop over header_configs: the first entry that matches by text or by
\* number and has a translation for the language ends the loop
ManualTrans(configs, level, text, h1_num, h2_num) ==
    LET hits == {c \in 1..Len(configs) :
                    /\ \/ MatchesText(configs[c], level, text)
                       \/ MatchesNumber(configs[c], level, h1_num, h2_num)
                    /\ configs[c].manual # NoText}
    IN  IF hits = {} THEN NoText
        ELSE configs[CHOOSE c \in hits : \A d \in hits : c <= d].manual

\* the entry of h1_dict or h2_dict recorded for line i (counted from 1) of ls:
\* its level (0 when there is none), text and numbers
HeadingAt(ls, i) ==
    LET h == find_headers_with_numbers(ls)
        h1s == {n \in DOMAIN h.h1_dict : h.h1_dict[n][1] = i - 1}
        h2s == {p \in {<<a, b>> : a \in DOMAIN h.h2_dict, b \in 1..Len(ls)} :
                    /\ p[2] \in DOMAIN h.h2_dict[p[1]]
                    /\ h.h2_dict[p[1]][p[2]][1] = i - 1}
    IN  IF h1s # {}
        THEN LET n == CHOOSE n \in h1s : TRUE
             IN  [level |-> 1, text |-> h.h1_dict[n][2], h1_num |-> n, h2_num |-> 0]
        ELSE IF h2s # {}
        THEN LET p == CHOOSE p \in h2s : TRUE
             IN  [level |-> 2, text |-> h.h2_dict[p[1]][p[2]][2],
                  h1_num |-> p[1], h2_num |-> p[2]]
        ELSE [level |-> 0, text |-> NoText, h1_num |-> 0, h2_num |-> 0]

\* the manual translation that replaces line i of ls, NoText when the line
\* is kept
ManualAt(ls, configs, i) ==
    LET h == HeadingAt(ls, i)
    IN  IF h.level = 0 THEN NoText
        ELSE ManualTrans(configs, h.level, h.text, h.h1_num, h.h2_num)

\* processed_lines after the two heading loops
ReplaceHeaders(ls, configs) ==
    [i \in 1..Len(ls) |->
        IF ManualAt(ls, configs, i) # NoText THEN ManualAt(ls, configs, i) ELSE ls[i]]

\* the entries of translation.headers.files[file] tried
HeaderConfigChoices ==
    { <<>>,
      <<HeaderConfig(1, LTitle, 0, 0, LManual)>>,
      <<HeaderConfig(2, NoText, 1, 1, LManualByNumber)>>,
      <<HeaderConfig(1, NoText, 1, 0, LManualByNumber),
        HeaderConfig(1, LTitle, 0, 0, LManual)>>,
      <<HeaderConfig(1, LTitle, 0, 0, NoText),
        HeaderConfig(1, NoText, 1, 0, LManualByNumber)>> }

HasHeading(ls) == \E i \in 1..Len(ls) : HeadingLevel(Strip(ls[i])) # 0

(***************************************************************************)
(* The main loop of translate_blocks, one action per branch.               *)
(***************************************************************************)
HtmlTags ==
    { <<"<", "p">>, <<"<", "h", "1">>, <<"<", "h", "2">>, <<"<", "h", "3">>,
      <<"<", "h", "4">>, <<"<", "h", "5">>, <<"<", "h", "6">>,
      <<"<", "s", "p", "a", "n">>, <<"<", "d", "i", "v">>, <<"<", "a">> }

\* re.search(r'>([^<]+)<', line).group(1), NoText when there is no match
RECURSIVE TextMatchFrom(_, _)
TextMatchFrom(line, from) ==
    LET i == Find(line, <<">">>, from)
        j == IF i = 0 THEN 0 ELSE Find(line, <<"<">>, i + 1)
    IN  IF j = 0 THEN NoText
        ELSE IF j > i + 1 THEN SubSeq(line, i + 1, j - 1)
        ELSE TextMatchFrom(line, i + 1)

\* the text content the HTML branch translates, NoText when it translates none
HtmlTextContent(line) ==
    LET m == TextMatchFrom(line, 1)
        text_content == Strip(m)
    IN  IF /\ \E tag \in HtmlTags : Contains(line, tag)
           /\ m # NoText
           /\ text_content # <<>>
           /\ \A k \in 1..Len(PROTECTED_TERMS) : ~Contains(text_content, PROTECTED_TERMS[k])
        THEN text_content ELSE NoText

IsMarked(line, marker) ==
    StartsWith(line, <<marker>>) /\ EndsWith(line, <<marker>>)

\* protect, call the provider, fall back, restore
Translated(kind, text) ==
    LET p == protect_terms(text)
    IN  restore_terms(TranslateOrKeep(kind, p.text), p.mapping)

\* the lines flush() appends to translated
FlushLines(buf, kind) ==
    IF buf = <<>> THEN <<>>
    ELSE SplitLines(Translated(kind, Join(buf, <<NL>>)))

FlushOrigin(out) ==
    [k \in 1..Len(out) |-> IF k <= Len(bufIdx) THEN bufIdx[k] ELSE bufIdx[Len(bufIdx)]]

\* the line with every placeholder match removed
RECURSIVE RemoveMatches(_)
RemoveMatches(line) ==
    IF line = <<>> THEN <<>>
    ELSE LET j == IF line[1] \in ExcludeColTokens
                  THEN Find(line, <<line[1]>>, 2) ELSE 0
         IN  IF j # 0 /\ ~HasChar(SubSeq(line, 2, j - 1), NL)
             THEN RemoveMatches(SubSeq(line, j + 1, Len(line)))
             ELSE <<line[1]>> \o RemoveMatches(Tail(line))

HasExcludeCol(line) == \E k \in 1..Len(line) : line[k] \in ExcludeColTokens

\* the branch of the loop body selected by the tests that read only the line
LineKind(line) ==
    LET stripped == Strip(line)
        unmarked == Replace(line, <<TRANSLATE_HEADER>>, <<>>)
        only_placeholders ==
            /\ Strip(Replace(RemoveMatches(unmarked), <<"|">>, <<>>)) = <<>>
            /\ RemoveMatches(unmarked) # unmarked
    IN  IF stripped # <<>> /\ stripped[1] \in ExcludeTableLineTokens THEN "excluded_table"
        ELSE IF StartsWith(stripped, FENCE_PREFIX) THEN "fence"
        ELSE IF \/ StartsWith(stripped, LStyleOpen)
                \/ StartsWith(stripped, <<"<", "s", "t", "y", "l", "e", " ">>)
             THEN "style_open"
        ELSE IF StartsWith(stripped, LStyleClose) THEN "style_close"
        ELSE IF HasChar(line, "<") /\ HasChar(line, ">")
             THEN IF HtmlTextContent(line) # NoText THEN "html_translate" ELSE "html_pass"
        ELSE IF \/ is_table_line(line)
                \/ IsMarked(line, EXCLUDE_HEADER)
                \/ IsMarked(line, TRANSLATE_HEADER)
             THEN IF IsMarked(line, EXCLUDE_HEADER) THEN "header_excluded"
                  ELSE IF ~HasExcludeCol(unmarked) THEN "table_normal"
                  ELSE IF ~only_placeholders THEN "table_columns"
                  ELSE IF IsMarked(line, TRANSLATE_HEADER) THEN "header_placeholders"
                  ELSE "row_placeholders"
        ELSE IF stripped = <<>> THEN "skip"
        ELSE IF StartsWith(stripped, <<">">>) THEN "blockquote"
        ELSE "buffer"

\* the branch taken for line i: the in_code / in_style_block test comes after
\* the marker, fence, style, HTML and table tests and before the blockquote test
Branch(i) ==
    IF kinds[i] \in {"blockquote", "buffer"} /\ (in_code \/ in_style_block)
    THEN "skip" ELSE kinds[i]

At(b) == bpc = "scan" /\ line_idx <= Len(lines) /\ Branch(line_idx) = b

\* append one element to translated, after flush() when doFlush; calls says
\* whether text of the current line went to the provider
Emit(doFlush, out, calls) ==
    LET fl == IF doFlush THEN FlushLines(buffer, translator) ELSE <<>>
    IN  /\ translated' = translated \o fl \o <<out>>
        /\ origin' = origin \o (IF doFlush THEN FlushOrigin(fl) ELSE <<>>) \o <<line_idx>>
        /\ buffer' = IF doFlush THEN <<>> ELSE buffer
        /\ bufIdx' = IF doFlush THEN <<>> ELSE bufIdx
        /\ sent' = sent \cup (IF doFlush THEN Range(bufIdx) ELSE {})
                        \cup (IF calls THEN {line_idx} ELSE {})
        /\ line_idx' = line_idx + 1
        /\ UNCHANGED <<src, lines, table_configs, header_configs, translator, bpc, kinds>>
        /\ UNCHANGED <<spanVars, asyncVars, fnVars>>

Begin ==
    /\ bpc = "start"
    /\ lines' = LET replaced == ReplaceHeaders(lines, header_configs)
                     tabled == ProcessTables(lines, table_configs)
                 IN  [i \in 1..Len(lines) |->
                        IF TableOf(lines, i) # 0 THEN tabled[i] ELSE replaced[i]]
    /\ kinds' = [i \in 1..Len(lines) |-> LineKind(lines'[i])]
    /\ bpc' = "scan"
    /\ UNCHANGED <<src, table_configs, header_configs, translator, line_idx, translated, buffer,
                   in_code, in_style_block, origin, bufIdx, sent>>
    /\ UNCHANGED <<spanVars, asyncVars, fnVars>>

\* the element appended when the placeholder line is not replaced
ExcludedTableLineKept ==
    /\ At("excluded_table")
    /\ Emit(FALSE, lines[line_idx], FALSE)
    /\ UNCHANGED <<in_code, in_style_block>>

ExcludedTableLine ==
    /\ At("excluded_table")
    /\ LET stripped == Strip(lines[line_idx])
           known == \E i \in 0..MaxLineNo :
                        stripped = <<ExcludeTableLine(i)>> /\ i < Len(src)
           original_idx == CHOOSE i \in 0..MaxLineNo : stripped = <<ExcludeTableLine(i)>>
       IN  Emit(FALSE, IF known THEN src[original_idx + 1] ELSE lines[line_idx], FALSE)
    /\ UNCHANGED <<in_code, in_style_block>>

FenceLine ==
    /\ At("fence")
    /\ Emit(TRUE, lines[line_idx], FALSE)
    /\ in_code' = ~in_code
    /\ UNCHANGED in_style_block

StyleOpen ==
    /\ At("style_open")
    /\ Emit(TRUE, lines[line_idx], FALSE)
    /\ in_style_block' = TRUE
    /\ UNCHANGED in_code

StyleClose ==
    /\ At("style_close")
    /\ Emit(TRUE, lines[line_idx], FALSE)
    /\ in_style_block' = FALSE
    /\ UNCHANGED in_code

HtmlTranslate ==
    /\ At("html_translate")
    /\ LET line == lines[line_idx]
           text_content == HtmlTextContent(line)
       IN  Emit(FALSE, Replace(line, text_content, Translated(translator, text_content)), TRUE)
    /\ UNCHANGED <<in_code, in_style_block>>

HtmlPass ==
    /\ At("html_pass")
    /\ Emit(TRUE, lines[line_idx], FALSE)
    /\ UNCHANGED <<in_code, in_style_block>>

HeaderExcluded ==
    /\ At("header_excluded")
    /\ Emit(TRUE, restore_table_line(Replace(lines[line_idx], <<EXCLUDE_HEADER>>, <<>>)), FALSE)
    /\ UNCHANGED <<in_code, in_style_block>>

HeaderPlaceholders ==
    /\ At("header_placeholders")
    /\ LET line == Replace(lines[line_idx], <<TRANSLATE_HEADER>>, <<>>)
       IN  Emit(TRUE, restore_table_line(Translated(translator, line)), TRUE)
    /\ UNCHANGED <<in_code, in_style_block>>

RowPlaceholders ==
    /\ At("row_placeholders")
    /\ Emit(TRUE, restore_table_line(lines[line_idx]), FALSE)
    /\ UNCHANGED <<in_code, in_style_block>>

TableColumns ==
    /\ At("table_columns")
    /\ LET line == Replace(lines[line_idx], <<TRANSLATE_HEADER>>, <<>>)
       IN  Emit(TRUE, restore_table_line(Translated(translator, line)), TRUE)
    /\ UNCHANGED <<in_code, in_style_block>>

TableNormal ==
    /\ At("table_normal")
    /\ LET line == Replace(lines[line_idx], <<TRANSLATE_HEADER>>, <<>>)
       IN  Emit(TRUE, Translated(translator, line), TRUE)
    /\ UNCHANGED <<in_code, in_style_block>>

SkipLine ==
    /\ At("skip")
    /\ Emit(TRUE, lines[line_idx], FALSE)
    /\ UNCHANGED <<in_code, in_style_block>>

Blockquote ==
    /\ At("blockquote")
    /\ LET quote_content == Strip(LStripChars(lines[line_idx], {">", " "}))
       IN  Emit(TRUE, <<">", " ">> \o Translated(translator, quote_content), TRUE)
    /\ UNCHANGED <<in_code, in_style_block>>

BufferLine ==
    /\ At("buffer")
    /\ buffer' = Append(buffer, lines[line_idx])
    /\ bufIdx' = Append(bufIdx, line_idx)
    /\ line_idx' = line_idx + 1
    /\ UNCHANGED <<src, lines, table_configs, header_configs, translator, bpc, translated,
                   in_code, in_style_block, origin, sent, kinds>>
    /\ UNCHANGED <<spanVars, asyncVars, fnVars>>

FinalFlush ==
    /\ bpc = "scan"
    /\ line_idx > Len(lines)
    /\ LET fl == FlushLines(buffer, translator)
       IN  /\ translated' = translated \o fl
           /\ origin' = origin \o FlushOrigin(fl)
    /\ sent' = sent \cup Range(bufIdx)
    /\ buffer' = <<>>
    /\ bufIdx' = <<>>
    /\ bpc' = "done"
    /\ UNCHANGED <<src, lines, table_configs, header_configs, translator, line_idx, in_code,
                   in_style_block, kinds>>
    /\ UNCHANGED <<spanVars, asyncVars, fnVars>>

InitBlocks ==
    /\ src \in Documents
    /\ lines = src
    /\ table_configs \in (IF find_table_ranges(src) = <<>> THEN {<<>>} ELSE ConfigChoices)
    /\ header_configs \in (IF HasHeading(src) THEN HeaderConfigChoices ELSE {<<>>})
    /\ translator \in Translators
    /\ bpc = "start"
    /\ line_idx = 1
    /\ translated = <<>>
    /\ buffer = <<>>
    /\ in_code = FALSE
    /\ in_style_block = FALSE
    /\ origin = <<>>
    /\ bufIdx = <<>>
    /\ sent = {}
    /\ kinds = <<>>

NextBlocks ==
    \/ Begin
    \/ ExcludedTableLine
    \/ FenceLine
    \/ StyleOpen
    \/ StyleClose
    \/ HtmlTranslate
    \/ HtmlPass
    \/ HeaderExcluded
    \/ HeaderPlaceholders
    \/ RowPlaceholders
    \/ TableColumns
    \/ TableNormal
    \/ SkipLine
    \/ Blockquote
    \/ BufferLine
    \/ FinalFlush

IdleBlocks ==
    /\ src = <<>>
    /\ lines = <<>>
    /\ table_configs = <<>>
    /\ header_configs = <<>>
    /\ bpc = "idle"
    /\ line_idx = 1
    /\ translated = <<>>
    /\ buffer = <<>>
    /\ in_code = FALSE
    /\ in_style_block = FALSE
    /\ origin = <<>>
    /\ bufIdx = <<>>
    /\ sent = {}
    /\ kinds = <<>>

(***************************************************************************)
(* The span pipeline: inputs and steps.                                    *)
(***************************************************************************)
MaxTextLen == 8
MaxRowLen == 5

SeqsUpTo(alphabet, n) == UNION {[1..k -> alphabet] : k \in 0..n}

\* plain text with inline code and a protected term, and fragments of table
\* rows that carry the column markers of process_table_line
SpanTexts ==
    SeqsUpTo({BT, "a", "AngryScan"}, MaxTextLen)
        \cup SeqsUpTo({BT, "a", "AngryScan", ExcludeCol(1)}, MaxRowLen)

\* the stubs that return every placeholder token unchanged
TokenKeeping == {"up", "id"}

Protect ==
    /\ spc = "input"
    /\ span_text' = protect_terms(span_in).text
    /\ span_map' = protect_terms(span_in).mapping
    /\ spc' = "protected"
    /\ UNCHANGED <<span_in, translator, blockRest, asyncVars, fnVars>>

ProviderCall ==
    /\ spc = "protected"
    /\ span_text' = TranslateOrKeep(translator, span_text)
    /\ spc' = "answered"
    /\ UNCHANGED <<span_in, span_map, translator, blockRest, asyncVars, fnVars>>

Restore ==
    /\ spc = "answered"
    /\ span_text' = restore_terms(span_text, span_map)
    /\ spc' = "restored"
    /\ UNCHANGED <<span_in, span_map, translator, blockRest, asyncVars, fnVars>>

InitSpan ==
    /\ span_in \in SpanTexts
    /\ span_text = span_in
    /\ span_map = {}
    /\ spc = "input"

IdleSpan ==
    /\ span_in = <<>>
    /\ span_text = <<>>
    /\ span_map = {}
    /\ spc = "idle"

NextTerms == Protect \/ ProviderCall \/ Restore

(***************************************************************************)
(* run_async and its tasks.                                                *)
(***************************************************************************)
NumDocs == 3
NumLangs == 2

\* --max-concurrent-translations 1, and the default of --max-concurrent-files
MAX_CONCURRENT_TRANSLATIONS == 1
MAX_CONCURRENT_FILES == 2

Docs == 1..NumDocs
\* the positions of the targets list; a language code is a number of 1..NumLangs
Langs == 1..NumLangs
Tasks == Docs \X Langs
DocKinds == <<"title", "plain", "meta">>

\* the documents take the three kinds in turn, from any first kind
DocKindChoices ==
    {[d \in Docs |-> DocKinds[((d + r) % Len(DocKinds)) + 1]] : r \in 1..Len(DocKinds)}

Distinct == [l \in Langs |-> l]
Duplicate == [l \in Langs |-> IF l = NumLangs THEN 1 ELSE l]

\* the runs: --targets with distinct codes and no, one or every provider
\* unavailable; --targets naming the first code twice; distinct codes with
\* one output location that cannot be written
RunChoices ==
    {[targets |-> Distinct, unwritable |-> {}, failing |-> f] : f \in {{}, {1}, Langs}}
    \cup {[targets |-> Duplicate, unwritable |-> {}, failing |-> {1}]}
    \cup {[targets |-> Distinct, unwritable |-> {<<1, 1>>}, failing |-> f] : f \in {{}, {1}}}

NoFile == [front |-> "absent", body |-> "none"]

\* build_translation_path: the output location of task <<d, l>>
OutputPath(d, l) == <<d, targets[l]>>
Paths == Docs \X Langs

Raises(l) == targets[l] \in failing

\* what translate_blocks returns: every provider call that raises falls back
\* to the text it was given
BodyOf(l) == IF Raises(l) THEN "source" ELSE "translated"

\* the documents of the batch that starts at index i
Batch(i) == {d \in Docs : i <= d /\ d < i + MAX_CONCURRENT_FILES}

InFlight == Cardinality({t \in Tasks : task[t] \in {"body_call", "front_call"}})

\* the end of translate_single_language: the output file is opened and
\* written and one operation is counted; an error of the write is caught by
\* the except branch, which counts the operation as well
WriteFile(d, l, front) ==
    /\ IF OutputPath(d, l) \in unwritable
       THEN /\ task' = [task EXCEPT ![<<d, l>>] = "failed"]
            /\ UNCHANGED <<files, writes>>
       ELSE /\ files' = [files EXCEPT ![OutputPath(d, l)] =
                            [front |-> front, body |-> BodyOf(l)]]
            /\ writes' = [writes EXCEPT ![OutputPath(d, l)] = @ + 1]
            /\ task' = [task EXCEPT ![<<d, l>>] = "done"]
    /\ progress' = progress + 1
    /\ UNCHANGED <<failing, doc_kind, targets, unwritable, originals, rpc,
                   batch_start, dpc, permits>>
    /\ UNCHANGED <<blockVars, spanVars, fnVars>>

\* add_metadata_to_original_files: a document without title and description
\* for which metadata is configured is written back with the metadata added
AddMetadataToOriginals ==
    /\ rpc = "start"
    /\ originals' = [d \in Docs |-> IF doc_kind[d] = "meta" THEN "rewritten" ELSE originals[d]]
    /\ rpc' = "launch"
    /\ UNCHANGED <<failing, doc_kind, targets, unwritable, batch_start, dpc, task,
                   permits, files, writes, progress>>
    /\ UNCHANGED <<blockVars, spanVars, fnVars>>

StartBatch ==
    /\ rpc = "launch"
    /\ dpc' = [d \in Docs |-> IF d \in Batch(batch_start) THEN "reading" ELSE dpc[d]]
    /\ rpc' = "gather"
    /\ UNCHANGED <<failing, doc_kind, targets, unwritable, originals, batch_start,
                   task, permits, files, writes, progress>>
    /\ UNCHANGED <<blockVars, spanVars, fnVars>>

\* the except branch of translate_file_async without its progress update
ReadFileFailsUncounted(d) ==
    /\ dpc[d] = "reading"
    /\ doc_kind[d] = "unreadable"
    /\ dpc' = [dpc EXCEPT ![d] = "returned"]
    /\ UNCHANGED <<failing, doc_kind, targets, unwritable, originals, rpc,
                   batch_start, task, permits, files, writes, progress>>
    /\ UNCHANGED <<blockVars, spanVars, fnVars>>

\* reading the document raises: no language task is created, the except
\* branch of translate_file_async counts all of them and the call returns
ReadFileFails(d) ==
    /\ dpc[d] = "reading"
    /\ doc_kind[d] = "unreadable"
    /\ progress' = progress + Len(targets)
    /\ dpc' = [dpc EXCEPT ![d] = "returned"]
    /\ UNCHANGED <<failing, doc_kind, targets, unwritable, originals, rpc,
                   batch_start, task, permits, files, writes>>
    /\ UNCHANGED <<blockVars, spanVars, fnVars>>

ReadFile(d) ==
    /\ dpc[d] = "reading"
    /\ doc_kind[d] # "unreadable"
    /\ task' = [t \in Tasks |-> IF t[1] = d THEN "wait" ELSE task[t]]
    /\ dpc' = [dpc EXCEPT ![d] = "gathering"]
    /\ UNCHANGED <<failing, doc_kind, targets, unwritable, originals, rpc,
                   batch_start, permits, files, writes, progress>>
    /\ UNCHANGED <<blockVars, spanVars, fnVars>>

AcquireSemaphore(d, l) ==
    /\ task[<<d, l>>] = "wait"
    /\ permits > 0
    /\ permits' = permits - 1
    /\ task' = [task EXCEPT ![<<d, l>>] = "body_call"]
    /\ UNCHANGED <<failing, doc_kind, targets, unwritable, originals, rpc,
                   batch_start, dpc, files, writes, progress>>
    /\ UNCHANGED <<blockVars, spanVars, fnVars>>

BlocksDone(d, l) ==
    /\ task[<<d, l>>] = "body_call"
    /\ permits' = permits + 1
    /\ task' = [task EXCEPT ![<<d, l>>] = "front"]
    /\ UNCHANGED <<failing, doc_kind, targets, unwritable, originals, rpc,
                   batch_start, dpc, files, writes, progress>>
    /\ UNCHANGED <<blockVars, spanVars, fnVars>>

FrontMatterAbsent(d, l) ==
    /\ task[<<d, l>>] = "front"
    /\ doc_kind[d] = "plain"
    /\ WriteFile(d, l, "absent")

\* the front matter written by add_metadata_to_original_files holds what the
\* metadata holds, so add_metadata_to_front_matter adds nothing, calls no
\* provider and returns the front matter of the source
FrontMatterKept(d, l) ==
    /\ task[<<d, l>>] = "front"
    /\ doc_kind[d] = "meta"
    /\ WriteFile(d, l, "source")

FrontMatterCall(d, l) ==
    /\ task[<<d, l>>] = "front"
    /\ doc_kind[d] = "title"
    /\ task' = [task EXCEPT ![<<d, l>>] = "front_call"]
    /\ UNCHANGED <<failing, doc_kind, targets, unwritable, originals, rpc,
                   batch_start, dpc, permits, files, writes, progress>>
    /\ UNCHANGED <<blockVars, spanVars, fnVars>>

FrontMatterReturn(d, l) ==
    /\ task[<<d, l>>] = "front_call"
    /\ ~Raises(l)
    /\ WriteFile(d, l, "translated")

\* a variant without the try/except of translate_single_language: the raise
\* leaves the task and ends the other language tasks of the document with it
FrontMatterRaiseUncaught(d, l) ==
    /\ task[<<d, l>>] = "front_call"
    /\ Raises(l)
    /\ task' = [t \in Tasks |-> IF t[1] = d /\ task[t] # "done" THEN "failed" ELSE task[t]]
    /\ progress' = progress + NumLangs
    /\ UNCHANGED <<failing, doc_kind, targets, unwritable, originals, rpc,
                   batch_start, dpc, permits, files, writes>>
    /\ UNCHANGED <<blockVars, spanVars, fnVars>>

\* translate_front_matter lets the raise of translator.translate through, and
\* the except branch of translate_single_language ends the task without a file
FrontMatterRaise(d, l) ==
    /\ task[<<d, l>>] = "front_call"
    /\ Raises(l)
    /\ task' = [task EXCEPT ![<<d, l>>] = "failed"]
    /\ progress' = progress + 1
    /\ UNCHANGED <<failing, doc_kind, targets, unwritable, originals, rpc,
                   batch_start, dpc, permits, files, writes>>
    /\ UNCHANGED <<blockVars, spanVars, fnVars>>

\* a variant that returns without awaiting the language tasks
FileDoneWithoutGather(d) ==
    /\ dpc[d] = "gathering"
    /\ dpc' = [dpc EXCEPT ![d] = "returned"]
    /\ UNCHANGED <<failing, doc_kind, targets, unwritable, originals, rpc,
                   batch_start, task, permits, files, writes, progress>>
    /\ UNCHANGED <<blockVars, spanVars, fnVars>>

FileDone(d) ==
    /\ dpc[d] = "gathering"
    /\ \A l \in Langs : task[<<d, l>>] \in {"done", "failed"}
    /\ dpc' = [dpc EXCEPT ![d] = "returned"]
    /\ UNCHANGED <<failing, doc_kind, targets, unwritable, originals, rpc,
                   batch_start, task, permits, files, writes, progress>>
    /\ UNCHANGED <<blockVars, spanVars, fnVars>>

\* a variant that goes on to the next batch without awaiting the gather
BatchDoneWithoutGather ==
    /\ rpc = "gather"
    /\ batch_start' = batch_start + MAX_CONCURRENT_FILES
    /\ rpc' = IF batch_start' > NumDocs THEN "closing" ELSE "launch"
    /\ UNCHANGED <<failing, doc_kind, targets, unwritable, originals, dpc, task,
                   permits, files, writes, progress>>
    /\ UNCHANGED <<blockVars, spanVars, fnVars>>

BatchDone ==
    /\ rpc = "gather"
    /\ \A d \in Batch(batch_start) : dpc[d] = "returned"
    /\ batch_start' = batch_start + MAX_CONCURRENT_FILES
    /\ rpc' = IF batch_start' > NumDocs THEN "closing" ELSE "launch"
    /\ UNCHANGED <<failing, doc_kind, targets, unwritable, originals, dpc, task,
                   permits, files, writes, progress>>
    /\ UNCHANGED <<blockVars, spanVars, fnVars>>

\* the finally block: the progress bar is closed, completion is reported and
\* the menus are updated
CloseRun ==
    /\ rpc = "closing"
    /\ rpc' = "finished"
    /\ UNCHANGED <<failing, doc_kind, targets, unwritable, originals, batch_start,
                   dpc, task, permits, files, writes, progress>>
    /\ UNCHANGED <<blockVars, spanVars, fnVars>>

InitAsync ==
    /\ doc_kind \in DocKindChoices
    /\ \E c \in RunChoices :
          targets = c.targets /\ unwritable = c.unwritable /\ failing = c.failing
    /\ originals = [d \in Docs |-> "untouched"]
    /\ rpc = "start"
    /\ batch_start = 1
    /\ dpc = [d \in Docs |-> "queued"]
    /\ task = [t \in Tasks |-> "new"]
    /\ permits = MAX_CONCURRENT_TRANSLATIONS
    /\ files = [p \in Paths |-> NoFile]
    /\ writes = [p \in Paths |-> 0]
    /\ progress = 0

IdleAsync ==
    /\ failing = {}
    /\ doc_kind = <<>>
    /\ targets = <<>>
    /\ unwritable = {}
    /\ originals = <<>>
    /\ rpc = "idle"
    /\ batch_start = 1
    /\ dpc = <<>>
    /\ task = <<>>
    /\ permits = 0
    /\ files = <<>>
    /\ writes = <<>>
    /\ progress = 0

NextAsync ==
    \/ AddMetadataToOriginals
    \/ StartBatch
    \/ \E d \in Docs : ReadFile(d)
    \/ \E d \in Docs, l \in Langs : AcquireSemaphore(d, l)
    \/ \E d \in Docs, l \in Langs : BlocksDone(d, l)
    \/ \E d \in Docs, l \in Langs : FrontMatterAbsent(d, l)
    \/ \E d \in Docs, l \in Langs : FrontMatterKept(d, l)
    \/ \E d \in Docs, l \in Langs : FrontMatterCall(d, l)
    \/ \E d \in Docs, l \in Langs : FrontMatterReturn(d, l)
    \/ \E d \in Docs, l \in Langs : FrontMatterRaise(d, l)
    \/ \E d \in Docs : FileDone(d)
    \/ BatchDone
    \/ CloseRun

\* runs in which a document may be one that cannot be read
DocKindsRead == <<"title", "unreadable", "plain", "meta">>

DocKindReadChoices ==
    {[d \in Docs |-> DocKindsRead[((d + r) % Len(DocKindsRead)) + 1]] :
        r \in 1..Len(DocKindsRead)}

InitAsyncRead ==
    /\ doc_kind \in DocKindReadChoices
    /\ \E c \in RunChoices :
          targets = c.targets /\ unwritable = c.unwritable /\ failing = c.failing
    /\ originals = [d \in Docs |-> "untouched"]
    /\ rpc = "start"
    /\ batch_start = 1
    /\ dpc = [d \in Docs |-> "queued"]
    /\ task = [t \in Tasks |-> "new"]
    /\ permits = MAX_CONCURRENT_TRANSLATIONS
    /\ files = [p \in Paths |-> NoFile]
    /\ writes = [p \in Paths |-> 0]
    /\ progress = 0

NextAsyncRead ==
    \/ AddMetadataToOriginals
    \/ StartBatch
    \/ \E d \in Docs : ReadFile(d)
    \/ \E d \in Docs : ReadFileFails(d)
    \/ \E d \in Docs, l \in Langs : AcquireSemaphore(d, l)
    \/ \E d \in Docs, l \in Langs : BlocksDone(d, l)
    \/ \E d \in Docs, l \in Langs : FrontMatterAbsent(d, l)
    \/ \E d \in Docs, l \in Langs : FrontMatterKept(d, l)
    \/ \E d \in Docs, l \in Langs : FrontMatterCall(d, l)
    \/ \E d \in Docs, l \in Langs : FrontMatterReturn(d, l)
    \/ \E d \in Docs, l \in Langs : FrontMatterRaise(d, l)
    \/ \E d \in Docs : FileDone(d)
    \/ BatchDone
    \/ CloseRun

(***************************************************************************)
(* The front matter of one document for one language: the selection of     *)
(* translate_file / translate_single_language between                      *)
(* translate_front_matter, add_metadata_to_front_matter and a generated    *)
(* front matter.  A front matter is the list of its lines, the two         *)
(* sentinel lines included; <<>> stands for None.  A line is a record of   *)
(* its key, its value and the quoting of the value.                        *)
(***************************************************************************)
MaxFmLines == 2

FmKeys == {"title", "description"}
\* "subtitle" is a key other than title that holds the text "title:"
OtherKeys == {"tags", "subtitle"}
Quotes == {"none", "single"}

SourceValue(k) == <<"source", k>>
DefaultValue(k) == <<"default", k>>
OverrideValue(k) == <<"override", k>>
\* what translator.translate returns for a value
TranslatedValue(v) == <<"translated">> \o v

Sentinel == [key |-> "---", val |-> <<>>, quote |-> "none"]
FmLine(k, q) == [key |-> k, val |-> SourceValue(k), quote |-> q]
FmLines == {FmLine(k, q) : k \in FmKeys \cup OtherKeys, q \in Quotes}
FrontMatters ==
    {<<>>} \cup {<<Sentinel>> \o s \o <<Sentinel>> : s \in SeqsUpTo(FmLines, MaxFmLines)}

\* the entry of the file in the metadata configuration: whether there is one,
\* the keys with a default value, whether it has translations (none, for
\* another language only, for this language) and the keys overridden for
\* this language
NoMetadata == [configured |-> FALSE, defaults |-> {}, translations |-> "absent", overrides |-> {}]
FileMetadata ==
    {NoMetadata} \cup
    {[configured |-> TRUE, defaults |-> d, translations |-> t, overrides |-> o] :
        d \in SUBSET FmKeys, t \in {"absent", "other"}, o \in {{}}} \cup
    {[configured |-> TRUE, defaults |-> d, translations |-> "here", overrides |-> o] :
        d \in SUBSET FmKeys, o \in SUBSET FmKeys}

\* get_metadata_for_file(path, None): the keys of the returned dict that
\* hold a value
DefaultMetadata(m) == [k \in m.defaults |-> DefaultValue(k)]

\* get_metadata_for_file(path, lang): the explicit translation of the
\* language; nothing if the entry has translations but none for the language;
\* the default metadata if the entry has no translations at all
LangMetadata(m) ==
    CASE ~m.configured -> <<>>
      [] m.translations = "here" -> [k \in m.overrides |-> OverrideValue(k)]
      [] m.translations = "other" -> <<>>
      [] OTHER -> DefaultMetadata(m)

\* 'title:' in front_matter, 'description:' in front_matter
HasKeyText(fm, k) ==
    \E i \in 1..Len(fm) : fm[i].key = k \/ (k = "title" /\ fm[i].key = "subtitle")

\* translate_front_matter on one line
TranslateFmLine(line, overrides) ==
    IF line.key \in FmKeys
    THEN [key |-> line.key,
          val |-> IF line.key \in DOMAIN overrides
                  THEN overrides[line.key]
                  ELSE TranslatedValue(line.val),
          quote |-> IF line.quote = "none" THEN "none" ELSE "double"]
    ELSE line

translate_front_matter(fm, m) ==
    [i \in 1..Len(fm) |-> TranslateFmLine(fm[i], LangMetadata(m))]

\* the title or description that add_metadata_to_front_matter and the
\* generated front matter put in for key k: <<>> if there is none
MetadataLine(k, m) ==
    IF k \in DOMAIN LangMetadata(m)
    THEN <<[key |-> k, val |-> LangMetadata(m)[k], quote |-> "none"]>>
    ELSE IF k \in DOMAIN DefaultMetadata(m)
         THEN <<[key |-> k, val |-> TranslatedValue(DefaultMetadata(m)[k]), quote |-> "none"]>>
         ELSE <<>>

\* the loop of add_metadata_to_front_matter from line i on; the first
\* sentinel line is line 1
RECURSIVE AddMetadataFrom(_, _, _, _, _)
AddMetadataFrom(fm, i, m, title_added, description_added) ==
    IF i > Len(fm) THEN <<>>
    ELSE LET title == IF i = 1 /\ ~title_added THEN MetadataLine("title", m) ELSE <<>>
             t_added == title_added \/ title # <<>>
             description ==
                 IF (fm[i].key = "title" \/ (i = 1 /\ t_added)) /\ ~description_added
                 THEN MetadataLine("description", m) ELSE <<>>
             d_added == description_added \/ description # <<>>
         IN  <<fm[i]>> \o title \o description \o AddMetadataFrom(fm, i + 1, m, t_added, d_added)

\* list.insert(idx, x), idx counted from 0
InsertAt(s, idx, x) == SubSeq(s, 1, idx) \o x \o SubSeq(s, idx + 1, Len(s))

\* the code after the loop: a title is never left to add, because the loop
\* adds one at the first sentinel whenever the metadata holds one; a default
\* description the loop did not add goes after the first title line, or
\* before the index of the last sentinel of the source
AddDescriptionAfterLoop(fm, new_lines, m) ==
    LET title_lines == {i \in 1..Len(new_lines) : new_lines[i].key = "title"}
        title_idx == CHOOSE i \in title_lines : \A j \in title_lines : i <= j
    IN  IF "description" \notin m.defaults THEN new_lines
        ELSE IF title_lines # {}
             THEN InsertAt(new_lines, title_idx, MetadataLine("description", m))
             ELSE InsertAt(new_lines, Len(fm) - 1, MetadataLine("description", m))

add_metadata_to_front_matter(fm, m) ==
    LET has_title == HasKeyText(fm, "title")
        has_description == HasKeyText(fm, "description")
        title_added == has_title \/ MetadataLine("title", m) # <<>>
        description_added ==
            has_description \/ (title_added /\ MetadataLine("description", m) # <<>>)
        new_lines == AddMetadataFrom(fm, 1, m, has_title, has_description)
    IN  IF has_title /\ has_description THEN fm
        ELSE IF description_added THEN new_lines
             ELSE AddDescriptionAfterLoop(fm, new_lines, m)

\* the front matter made when the document has none
GeneratedFrontMatter(m) ==
    IF m.configured /\ m.defaults # {}
    THEN <<Sentinel>> \o MetadataLine("title", m) \o MetadataLine("description", m) \o <<Sentinel>>
    ELSE <<>>

FrontFinish(result) ==
    /\ translated_front_matter' = result
    /\ fpc' = "done"
    /\ UNCHANGED <<front_matter, file_metadata>>
    /\ UNCHANGED <<blockVars, spanVars, asyncVars, splitVars, pathVars, headVars, syncVars>>

TranslateExisting ==
    /\ fpc = "select"
    /\ front_matter # <<>>
    /\ \/ HasKeyText(front_matter, "title") /\ HasKeyText(front_matter, "description")
       \/ ~file_metadata.configured
    /\ FrontFinish(translate_front_matter(front_matter, file_metadata))

AddMetadata ==
    /\ fpc = "select"
    /\ front_matter # <<>>
    /\ ~(HasKeyText(front_matter, "title") /\ HasKeyText(front_matter, "description"))
    /\ file_metadata.configured
    /\ FrontFinish(add_metadata_to_front_matter(front_matter, file_metadata))

GenerateFrontMatter ==
    /\ fpc = "select"
    /\ front_matter = <<>>
    /\ FrontFinish(GeneratedFrontMatter(file_metadata))

InitFront ==
    /\ front_matter \in FrontMatters
    /\ file_metadata \in FileMetadata
    /\ translated_front_matter = <<>>
    /\ fpc = "select"

IdleFront ==
    /\ front_matter = <<>>
    /\ file_metadata = NoMetadata
    /\ translated_front_matter = <<>>
    /\ fpc = "idle"

NextFront == TranslateExisting \/ AddMetadata \/ GenerateFrontMatter

(***************************************************************************)
(* split_front_matter and the reassembly of the output file.  The content  *)
(* of a document is split, the parts are written as translate_file and     *)
(* translate_single_language write them (with a translator that returns    *)
(* its input), and the written file is split again.                        *)
(***************************************************************************)
MaxContentLines == 4

SENTINEL == <<"-", "-", "-">>

\* the lines of a document: empty, text, the sentinel, and a line that
\* merely starts with the sentinel
ContentLines == {<<>>, <<"a">>, SENTINEL, SENTINEL \o <<"a">>}
Contents == {Join(ls, <<NL>>) : ls \in SeqsUpTo(ContentLines, MaxContentLines)}

\* Python's None, where a text is expected
None == <<"None">>

split_front_matter(c) ==
    LET end == Find(c, <<NL>> \o SENTINEL, 5)
    IN  IF StartsWith(c, SENTINEL \o <<NL>>) /\ end # 0
        THEN [front_matter |-> SubSeq(c, 1, end + 3),
              body |-> LStripChars(SubSeq(c, end + 4, Len(c)), {NL})]
        ELSE [front_matter |-> None, body |-> c]

\* the front matter the code generates from the metadata title "a"
GeneratedTitle == SENTINEL \o <<NL, "a", NL>> \o SENTINEL

\* a variant without the strip: "\n".join(pieces) + "\n"
WriteContentUnstripped(front, body) ==
    Join(IF front # None /\ front # <<>> THEN <<front, <<>>, body>> ELSE <<body>>,
         <<NL>>) \o <<NL>>

\* "\n".join(pieces).strip() + "\n"
WriteContent(front, body) ==
    Strip(Join(IF front # None /\ front # <<>> THEN <<front, <<>>, body>> ELSE <<body>>,
               <<NL>>)) \o <<NL>>

SplitContent ==
    /\ wpc = "split"
    /\ split_result' = split_front_matter(content)
    /\ wpc' = "write"
    /\ UNCHANGED <<content, out_front, written, resplit_result>>
    /\ UNCHANGED <<blockVars, spanVars, asyncVars, frontVars, pathVars, headVars, syncVars>>

\* the front matter written is the one of the source or, when the source has
\* none, none or a generated one
WriteOutput ==
    /\ wpc = "write"
    /\ \E f \in {split_result.front_matter, GeneratedTitle} :
          /\ split_result.front_matter # None => f = split_result.front_matter
          /\ out_front' = f
          /\ written' = WriteContent(f, split_result.body)
    /\ wpc' = "resplit"
    /\ UNCHANGED <<content, split_result, resplit_result>>
    /\ UNCHANGED <<blockVars, spanVars, asyncVars, frontVars, pathVars, headVars, syncVars>>

SplitWritten ==
    /\ wpc = "resplit"
    /\ resplit_result' = split_front_matter(written)
    /\ wpc' = "done"
    /\ UNCHANGED <<content, split_result, out_front, written>>
    /\ UNCHANGED <<blockVars, spanVars, asyncVars, frontVars, pathVars, headVars, syncVars>>

InitSplit ==
    /\ content \in Contents
    /\ split_result = <<>>
    /\ out_front = None
    /\ written = <<>>
    /\ resplit_result = <<>>
    /\ wpc = "split"

IdleSplit ==
    /\ content = <<>>
    /\ split_result = <<>>
    /\ out_front = None
    /\ written = <<>>
    /\ resplit_result = <<>>
    /\ wpc = "idle"

NextSplit == SplitContent \/ WriteOutput \/ SplitWritten

(***************************************************************************)
(* build_translation_path for one input path and two language codes.  A    *)
(* path is a record of its root (the docs root or another directory) and   *)
(* of its components below the root; a component and a language code are   *)
(* texts.                                                                  *)
(***************************************************************************)
MaxCodeLen == 3
MaxDepth == 2

CodeChars == {"a", "b", "."}
\* language codes begin and end with a letter
LanguageCodes ==
    {c \in SeqsUpTo(CodeChars, MaxCodeLen) : c # <<>> /\ c[1] # "." /\ c[Len(c)] # "."}

FileName == <<"i", ".", "m", "d">>
DirName == <<"s">>
InputPaths ==
    {[root |-> r, parts |-> [i \in 1..n |-> IF i = n THEN FileName ELSE DirName]] :
        r \in {"docs", "other"}, n \in 1..MaxDepth}

\* TRANSLATION_SUFFIXES.get(lang, f".{lang}.md")
SuffixOf(lang) == <<".">> \o lang \o <<".", "m", "d">>

\* the last position of c in s, 0 if there is none
LastIndexOf(s, c) ==
    IF HasChar(s, c) THEN CHOOSE i \in 1..Len(s) : s[i] = c /\ \A j \in i + 1..Len(s) : s[j] # c
    ELSE 0

\* Path.stem: the name without its last extension
Stem(name) ==
    IF LastIndexOf(name, ".") > 1 THEN SubSeq(name, 1, LastIndexOf(name, ".") - 1) ELSE name

\* the / of pathlib: an empty component adds nothing
Slash(parts, component) == IF component = <<>> THEN parts ELSE Append(parts, component)

build_translation_path(path, suffix) ==
    LET lang_code == IF HasChar(suffix, ".") THEN Split(suffix, ".")[2] ELSE suffix
    IN  IF path.root = "docs"
        THEN [root |-> "docs", parts |-> Slash(<<>>, lang_code) \o path.parts]
        ELSE [root |-> path.root,
              parts |-> SubSeq(path.parts, 1, Len(path.parts) - 1)
                        \o <<Stem(path.parts[Len(path.parts)]) \o suffix>>]

BuildPaths ==
    /\ ppc = "build"
    /\ out_a' = build_translation_path(in_path, SuffixOf(lang_a))
    /\ out_b' = build_translation_path(in_path, SuffixOf(lang_b))
    /\ ppc' = "done"
    /\ UNCHANGED <<in_path, lang_a, lang_b>>
    /\ UNCHANGED <<blockVars, spanVars, asyncVars, frontVars, splitVars, headVars, syncVars>>

InitPath ==
    /\ in_path \in InputPaths
    /\ lang_a \in LanguageCodes
    /\ lang_b \in LanguageCodes
    /\ out_a = <<>>
    /\ out_b = <<>>
    /\ ppc = "build"

IdlePath ==
    /\ in_path = <<>>
    /\ lang_a = <<>>
    /\ lang_b = <<>>
    /\ out_a = <<>>
    /\ out_b = <<>>
    /\ ppc = "idle"

NextPath == BuildPaths

(***************************************************************************)
(* find_headers_with_numbers as a function of its argument.                *)
(***************************************************************************)
MaxHeadLines == 4

LSubHeading == <<"#", "#", "#", " ", "s">>
LHeadingIndented == <<" ", "#", "#", " ", "t", " ">>

HeadLineChoices == {LText, LTitle, LHeading, LHeadingIndented, LSubHeading}

FindHeaders ==
    /\ hpc = "find"
    /\ h1_dict' = find_headers_with_numbers(head_lines).h1_dict
    /\ h2_dict' = find_headers_with_numbers(head_lines).h2_dict
    /\ hpc' = "done"
    /\ UNCHANGED head_lines
    /\ UNCHANGED <<blockVars, spanVars, asyncVars, frontVars, splitVars, pathVars, syncVars>>

InitHead ==
    /\ head_lines \in SeqsUpTo(HeadLineChoices, MaxHeadLines)
    /\ h1_dict = <<>>
    /\ h2_dict = <<>>
    /\ hpc = "find"

IdleHead ==
    /\ head_lines = <<>>
    /\ h1_dict = <<>>
    /\ h2_dict = <<>>
    /\ hpc = "idle"

NextHead == FindHeaders

(***************************************************************************)
(* process_content_lines of sync_docs.py, one action per branch of the     *)
(* loop body.  A translation link, a match of TRANSLATION_LINK_PATTERN, is *)
(* one element of a line; LinkLabel is its group 1.                        *)
(***************************************************************************)
MaxContentLen == 3

BOM == "[bom]"
LINK == "[ru](a.ru.md)"
LinkLabel == <<"r", "u">>
Alnum == {"a", "h", "k", "r", "s", "t", "u"}
LinkTrimChars == {"-", "*", "+", ":", "|", " "}

LRemovable == <<"#", "#", " ", "r">>
LLink == <<LINK>>
LBulletLink == <<"-", " ", LINK>>
LTextLink == <<"a", " ", LINK, " ">>

SyncLineChoices ==
    {LText, LTitle, LRemovable, LHeading, LSubHeading, LLink, LBulletLink,
     LTextLink}

FullMatch(s) == s = <<LINK>>

\* the prefixes "- ", "* ", "+ " followed by nothing but a link
BulletLink(stripped) ==
    \E c \in {"-", "*", "+"} :
        /\ StartsWith(stripped, <<c, " ">>)
        /\ FullMatch(Strip(SubSeq(stripped, 3, Len(stripped))))

\* what is left of a line with links once they are removed
Trimmed(line_no_bom) ==
    Strip(LStripChars(Strip(Replace(line_no_bom, <<LINK>>, <<>>)), LinkTrimChars))

\* the tests on a line that is outside every removable section
LinkLineDropped(line_no_bom) ==
    LET stripped == Strip(line_no_bom)
    IN  \/ FullMatch(stripped)
        \/ BulletLink(stripped)
        \/ /\ HasChar(line_no_bom, LINK)
           /\ \A k \in 1..Len(Trimmed(line_no_bom)) : Trimmed(line_no_bom)[k] \notin Alnum

LineNoBom == LStripChars(content_lines[content_idx], {BOM})

Stripped == Strip(LineNoBom)

Scanning == cpc = "scan" /\ content_idx <= Len(content_lines)

\* the loop goes on to the next line, with or without an appended element
Continue(out) ==
    /\ processed_lines' = processed_lines \o out
    /\ kept' = kept \o [k \in 1..Len(out) |-> content_idx]
    /\ content_idx' = content_idx + 1
    /\ UNCHANGED <<content_lines, remove_headers, skip_until_first_header,
                   process_translation_links, cpc>>
    /\ UNCHANGED <<blockVars, spanVars, asyncVars, frontVars, splitVars, pathVars, headVars>>

FirstHeader ==
    /\ Scanning
    /\ skip_until_first_header_flag
    /\ StartsWith(Stripped, <<"#">>)
    /\ skip_until_first_header_flag' = FALSE
    /\ Continue(<<RStripChars(LineNoBom, Whitespace)>>)
    /\ UNCHANGED in_removable_section

BeforeFirstHeader ==
    /\ Scanning
    /\ skip_until_first_header_flag
    /\ ~StartsWith(Stripped, <<"#">>)
    /\ Continue(<<>>)
    /\ UNCHANGED <<skip_until_first_header_flag, in_removable_section>>

RemovableStart ==
    /\ Scanning
    /\ ~skip_until_first_header_flag
    /\ Stripped \in remove_headers
    /\ in_removable_section' = TRUE
    /\ Continue(<<>>)
    /\ UNCHANGED skip_until_first_header_flag

RemovableEnd ==
    /\ Scanning
    /\ ~skip_until_first_header_flag
    /\ Stripped \notin remove_headers
    /\ in_removable_section
    /\ StartsWith(Stripped, <<"#", "#">>)
    /\ in_removable_section' = FALSE
    /\ Continue(<<>>)
    /\ UNCHANGED skip_until_first_header_flag

RemovableSkip ==
    /\ Scanning
    /\ ~skip_until_first_header_flag
    /\ Stripped \notin remove_headers
    /\ in_removable_section
    /\ ~StartsWith(Stripped, <<"#", "#">>)
    /\ Continue(<<>>)
    /\ UNCHANGED <<skip_until_first_header_flag, in_removable_section>>

Outside ==
    /\ Scanning
    /\ ~skip_until_first_header_flag
    /\ Stripped \notin remove_headers
    /\ ~in_removable_section

LinkDropped ==
    /\ Outside
    /\ process_translation_links
    /\ LinkLineDropped(LineNoBom)
    /\ Continue(<<>>)
    /\ UNCHANGED <<skip_until_first_header_flag, in_removable_section>>

LinkReplaced ==
    /\ Outside
    /\ process_translation_links
    /\ ~LinkLineDropped(LineNoBom)
    /\ HasChar(LineNoBom, LINK)
    /\ Continue(<<RStripChars(Replace(LineNoBom, <<LINK>>, LinkLabel), Whitespace)>>)
    /\ UNCHANGED <<skip_until_first_header_flag, in_removable_section>>

KeepLine ==
    /\ Outside
    /\ ~process_translation_links \/ ~HasChar(LineNoBom, LINK)
    /\ ~process_translation_links \/ ~LinkLineDropped(LineNoBom)
    /\ Continue(<<RStripChars(LineNoBom, Whitespace)>>)
    /\ UNCHANGED <<skip_until_first_header_flag, in_removable_section>>

ReturnProcessed ==
    /\ cpc = "scan"
    /\ content_idx > Len(content_lines)
    /\ cpc' = "done"
    /\ UNCHANGED <<content_lines, remove_headers, skip_until_first_header,
                   process_translation_links, skip_until_first_header_flag,
                   in_removable_section, processed_lines, content_idx, kept>>
    /\ UNCHANGED <<blockVars, spanVars, asyncVars, frontVars, splitVars, pathVars, headVars>>

InitSync ==
    /\ content_lines \in SeqsUpTo(SyncLineChoices, MaxContentLen)
    /\ remove_headers = {LRemovable}
    /\ skip_until_first_header \in BOOLEAN
    /\ process_translation_links \in BOOLEAN
    /\ skip_until_first_header_flag = skip_until_first_header
    /\ in_removable_section = FALSE
    /\ processed_lines = <<>>
    /\ content_idx = 1
    /\ kept = <<>>
    /\ cpc = "scan"

IdleSync ==
    /\ content_lines = <<>>
    /\ remove_headers = {}
    /\ skip_until_first_header = FALSE
    /\ process_translation_links = FALSE
    /\ skip_until_first_header_flag = FALSE
    /\ in_removable_section = FALSE
    /\ processed_lines = <<>>
    /\ content_idx = 0
    /\ kept = <<>>
    /\ cpc = "idle"

NextSync ==
    \/ FirstHeader
    \/ BeforeFirstHeader
    \/ RemovableStart
    \/ RemovableEnd
    \/ RemovableSkip
    \/ LinkDropped
    \/ LinkReplaced
    \/ KeepLine
    \/ ReturnProcessed

vars == <<blockVars, spanVars, asyncVars, fnVars>>

IdleFn == IdleFront /\ IdleSplit /\ IdlePath /\ IdleHead /\ IdleSync

Init == InitBlocks /\ IdleSpan /\ IdleAsync /\ IdleFn
Next == NextBlocks
Spec == Init /\ [][Next]_vars

\* documents with at least one table and no heading policy, with a provider
\* that changes the text, one that loses it and one that fails
InitTables ==
    /\ Init
    /\ find_table_ranges(src) # <<>>
    /\ header_configs = <<>>
    /\ translator \in {"up", "empty", "raise"}
SpecTables == InitTables /\ [][NextBlocks]_vars

\* the span pipeline with a provider that loses the placeholders
InitTermsDropped == IdleBlocks /\ translator = "drop" /\ InitSpan /\ IdleAsync /\ IdleFn
SpecTermsDropped == InitTermsDropped /\ [][NextTerms]_vars

InitTerms == IdleBlocks /\ translator \in TokenKeeping /\ InitSpan /\ IdleAsync /\ IdleFn
SpecTerms == InitTerms /\ [][NextTerms]_vars

InitRun == IdleBlocks /\ translator = "id" /\ IdleSpan /\ InitAsync /\ IdleFn
SpecAsync == InitRun /\ [][NextAsync]_vars

InitRunRead == IdleBlocks /\ translator = "id" /\ IdleSpan /\ InitAsyncRead /\ IdleFn
SpecAsyncRead == InitRunRead /\ [][NextAsyncRead]_vars

\* the event loop runs a task that can take a step, and every provider call
\* returns or raises
SpecAsyncLive == SpecAsync /\ WF_vars(NextAsync)

InitFm ==
    /\ IdleBlocks /\ translator = "id" /\ IdleSpan /\ IdleAsync
    /\ InitFront /\ IdleSplit /\ IdlePath /\ IdleHead /\ IdleSync
SpecFront == InitFm /\ [][NextFront]_vars

InitDoc ==
    /\ IdleBlocks /\ translator = "id" /\ IdleSpan /\ IdleAsync
    /\ IdleFront /\ InitSplit /\ IdlePath /\ IdleHead /\ IdleSync
SpecSplit == InitDoc /\ [][NextSplit]_vars

InitPaths ==
    /\ IdleBlocks /\ translator = "id" /\ IdleSpan /\ IdleAsync
    /\ IdleFront /\ IdleSplit /\ InitPath /\ IdleHead /\ IdleSync
SpecPath == InitPaths /\ [][NextPath]_vars

InitHeaders ==
    /\ IdleBlocks /\ translator = "id" /\ IdleSpan /\ IdleAsync
    /\ IdleFront /\ IdleSplit /\ IdlePath /\ InitHead /\ IdleSync
SpecHeaders == InitHeaders /\ [][NextHead]_vars

InitContent ==
    /\ IdleBlocks /\ translator = "id" /\ IdleSpan /\ IdleAsync
    /\ IdleFront /\ IdleSplit /\ IdlePath /\ IdleHead /\ InitSync
SpecSync == InitContent /\ [][NextSync]_vars

(***************************************************************************)
(* Reassembly in translate_file / translate_single_language when there is  *)
(* no front matter: "\n".join([translated_body]).strip() + "\n".           *)
(***************************************************************************)
Reassemble(body) == Strip(body) \o <<NL>>

\* a text up to whitespace at line ends and leading and trailing blank lines
Canon(text) ==
    LET ls == SplitLines(Strip(text))
    IN  [i \in 1..Len(ls) |-> RStripChars(ls[i], Whitespace)]

\* the elements of translated produced from source line i
OutputOf(i) == {k \in 1..Len(translated) : origin[k] = i}

\* source line i was emitted once and unchanged
Verbatim(i) == \E k \in OutputOf(i) : translated[k] = src[i] /\ OutputOf(i) = {k}

ColumnText(line, c) ==
    LET cols == parse_table_line(line)
    IN  IF c <= Len(cols) THEN cols[c] ELSE NoText

\* the state of the fence and style toggles when line i is reached
InCodeAt(i) == Cardinality({j \in 1..(i - 1) : kinds[j] = "fence"}) % 2 = 1
InStyleAt(i) ==
    \E j \in 1..(i - 1) :
        /\ kinds[j] = "style_open"
        /\ \A m \in (j + 1)..(i - 1) : kinds[m] # "style_close"

\* the tables of the document with their resolved configs: <<start, end, cfg>>
ConfiguredTables ==
    LET ranges == find_table_ranges(src)
    IN  { <<ranges[n][1], ranges[n][2], table_configs[ResolvedConfig(src, table_configs, n)]>> :
            n \in {m \in 1..Len(ranges) : ResolvedConfig(src, table_configs, m) # 0} }

\* the stubs that return one line for every line they are given
LineKeeping == {"up", "id", "raise", "none"}

(***************************************************************************)
(* C1: with a translator that returns one output line per input line, the  *)
(* output lines appear in the order of the source lines they come from.    *)
(***************************************************************************)
C1_OutputInDocumentOrder ==
    translator \in LineKeeping =>
        \A k \in 1..(Len(origin) - 1) : origin[k] < origin[k + 1]

(***************************************************************************)
(* C2: with the identity translator, translate_blocks followed by the      *)
(* reassembly step gives back the body, up to whitespace at line ends and  *)
(* the single trailing newline.                                            *)
(***************************************************************************)
C2_IdentityRoundTrip ==
    (bpc = "done" /\ translator = "id") =>
        Canon(Reassemble(Join(translated, <<NL>>))) = Canon(Join(src, <<NL>>))

(***************************************************************************)
(* C4: in a table whose resolved policy excludes exactly column c (and not *)
(* the whole table), every row keeps the text of column c.  Stated for the *)
(* stubs that return the text they are given with every token intact.      *)
(***************************************************************************)
C4_ExcludedColumnVerbatim ==
    (bpc = "done" /\ translator \in {"up", "id"}) =>
        \A t \in ConfiguredTables :
            \A c \in 1..MaxCols :
                (t[3].exclude_columns = {c} /\ ~t[3].exclude_table) =>
                    \A i \in t[1]..(t[2] - 1) :
                        \E k \in OutputOf(i) :
                            ColumnText(translated[k], c) = ColumnText(src[i], c)

(***************************************************************************)
(* C5: when the resolved policy of a table has exclude_header, the header  *)
(* row is never passed to the provider and is output unchanged.            *)
(***************************************************************************)
C5_ExcludedHeaderUntouched ==
    bpc = "done" =>
        \A t \in ConfiguredTables :
            t[3].exclude_header => (t[1] \notin sent /\ Verbatim(t[1]))

(***************************************************************************)
(* C9: when the provider raises, returns None or returns the empty string, *)
(* every buffered text line is output unchanged, none is dropped.          *)
(***************************************************************************)
C9_FlushFallback ==
    (bpc = "done" /\ translator \in {"raise", "none", "empty"}) =>
        \A i \in 1..Len(src) : kinds[i] = "buffer" => Verbatim(i)

(***************************************************************************)
(* C10: a line that opens or closes a code fence or a style block, or lies *)
(* inside an open one, is output unchanged and never reaches the provider. *)
(***************************************************************************)
C10_FenceAndStyleProtected ==
    bpc = "done" =>
        \A i \in 1..Len(src) :
            (\/ kinds[i] \in {"fence", "style_open", "style_close"}
             \/ InCodeAt(i)
             \/ InStyleAt(i)) => (i \notin sent /\ Verbatim(i))

(***************************************************************************)
(* C3: after protect_terms, a provider call that returns every placeholder *)
(* unchanged, and restore_terms, the text holds every protected term and   *)
(* every inline code span of the input and no __PROTECTED_ placeholder.    *)
(***************************************************************************)
ProtectedItems(text) ==
    {PROTECTED_TERMS[k] : k \in {m \in 1..Len(PROTECTED_TERMS) : Contains(text, PROTECTED_TERMS[m])}}
        \cup {<<BT>> \o BacktickMatches(text)[k] \o <<BT>> :
                k \in {m \in 1..Len(BacktickMatches(text)) :
                          Strip(BacktickMatches(text)[m]) # <<>>}}

C3_PlaceholderClosure ==
    spc = "restored" =>
        /\ \A k \in 1..Len(span_text) : span_text[k] \notin PlaceholderTokens
        /\ \A item \in ProtectedItems(span_in) : Contains(span_text, item)

(***************************************************************************)
(* C6: in the asynchronous run the number of translator.translate calls in *)
(* flight (body spans, front matter, metadata titles together) never       *)
(* exceeds MAX_CONCURRENT_TRANSLATIONS.                                    *)
(***************************************************************************)
C6_InFlightBounded == InFlight <= MAX_CONCURRENT_TRANSLATIONS

(***************************************************************************)
(* C7: when every translator.translate call of a language raises, each     *)
(* task of that language still ends with its output file written, and the  *)
(* file holds untranslated content only.                                   *)
(***************************************************************************)
C7_UnavailableLanguageFallsBack ==
    \A t \in DOMAIN task :
        (Raises(t[2]) /\ task[t] \in {"done", "failed"}
                      /\ OutputPath(t[1], t[2]) \notin unwritable) =>
            /\ files[OutputPath(t[1], t[2])] # NoFile
            /\ files[OutputPath(t[1], t[2])].body = "source"
            /\ files[OutputPath(t[1], t[2])].front # "translated"

(***************************************************************************)
(* C8: a failure in one language task of a document neither prevents nor   *)
(* alters the output of the other language tasks: under every interleaving *)
(* a task fails only on a raise of its own provider, a finished task has   *)
(* written exactly what its own provider outcomes give, and the run is     *)
(* never stopped short of its end.                                         *)
(***************************************************************************)
ExpectedFile(d, l) ==
    [front |-> CASE doc_kind[d] = "plain" -> "absent"
                 [] doc_kind[d] = "title" -> "translated"
                 [] doc_kind[d] = "meta" -> "source",
     body |-> IF Raises(l) THEN "source" ELSE "translated"]

OwnFailure(d, l) ==
    \/ Raises(l) /\ doc_kind[d] = "title"
    \/ OutputPath(d, l) \in unwritable

C8_FailureIsolation ==
    /\ \A t \in DOMAIN task :
          /\ task[t] = "done" => files[OutputPath(t[1], t[2])] = ExpectedFile(t[1], t[2])
          /\ task[t] = "failed" => OwnFailure(t[1], t[2])
    /\ \A p \in DOMAIN files :
          files[p] # NoFile =>
              \E l \in Langs : OutputPath(p[1], l) = p /\ task[<<p[1], l>>] = "done"
    /\ rpc \in {"start", "launch", "gather", "closing"} => ENABLED NextAsync
    /\ rpc = "finished" =>
          \A t \in DOMAIN task :
              task[t] = (IF OwnFailure(t[1], t[2]) THEN "failed" ELSE "done")

C8_Witness ==
    /\ rpc = "finished"
    /\ \E d \in DOMAIN dpc : \E a, b \in Langs :
          /\ targets[a] # targets[b]
          /\ task[<<d, a>>] = "failed"
          /\ task[<<d, b>>] = "done"
          /\ files[OutputPath(d, b)] = [front |-> "translated", body |-> "translated"]

\* C11: no step of a run changes a source document; a run reads the
\* originals and writes only translated copies.
C11_SourcesNeverMutated ==
    \A d \in DOMAIN originals : originals[d] = "untouched"

\* the write of the output file of task <<d, l>> raised
WriteFailed(d, l) ==
    /\ OutputPath(d, l) \in unwritable
    /\ task[<<d, l>>] = "failed"
    /\ ~(Raises(l) /\ doc_kind[d] = "title")

\* C17: an error of the write of an output file propagates out of the run:
\* a run in which a write failed does not go on to its normal end with the
\* operation counted as completed.
C17_WriteErrorsPropagate ==
    rpc = "finished" => \A t \in DOMAIN task : ~WriteFailed(t[1], t[2])

Running(t) == task[t] \in {"wait", "body_call", "front", "front_call"}

\* C18: each output path is written at most once in a run, by the one task
\* that owns it, and no two running tasks have the same output path, for
\* every list of targets.
C18_NoWriteContention ==
    /\ \A p \in DOMAIN writes : writes[p] <= 1
    /\ \A t, u \in DOMAIN task :
          (t # u /\ Running(t) /\ Running(u)) =>
              OutputPath(t[1], t[2]) # OutputPath(u[1], u[2])

Finished(t) == task[t] \in {"done", "failed"}

\* C19: translate_file_async returns only after every language task of its
\* document has finished, run_async reports completion and updates the menus
\* only after translate_file_async has returned for every document, and
\* run_async eventually reaches that point.
C19_CompletionOrdering ==
    /\ [](\A d \in DOMAIN dpc :
            dpc[d] = "returned" => \A l \in Langs : Finished(<<d, l>>))
    /\ [](rpc \in {"closing", "finished"} => \A d \in DOMAIN dpc : dpc[d] = "returned")
    /\ <>(rpc = "finished")

C19_Witness ==
    /\ rpc = "finished"
    /\ \A d \in DOMAIN dpc : dpc[d] = "returned"
    /\ \E t \in DOMAIN task : task[t] = "failed"
    /\ \E t \in DOMAIN task : task[t] = "done" /\ writes[OutputPath(t[1], t[2])] = 1

\* the group of a document: run_async takes the documents MAX_CONCURRENT_FILES
\* at a time
GroupOf(d) == (d - 1) \div MAX_CONCURRENT_FILES

\* C20: at every moment at most MAX_CONCURRENT_FILES documents have an
\* unfinished language task, and no task of a group starts before all tasks
\* of the groups before it have finished.
C20_BoundedDocumentGroups ==
    /\ Cardinality({d \in DOMAIN dpc : \E l \in Langs : Running(<<d, l>>)})
          <= MAX_CONCURRENT_FILES
    /\ \A t, u \in DOMAIN task :
          (GroupOf(t[1]) < GroupOf(u[1]) /\ task[u] # "new") => Finished(t)

\* a task of a later group runs, MAX_CONCURRENT_FILES documents having been
\* in work together before it
C20_Witness ==
    /\ \E u \in DOMAIN task : GroupOf(u[1]) > 0 /\ Running(u)
    /\ Cardinality({d \in DOMAIN dpc : dpc[d] = "returned"}) >= MAX_CONCURRENT_FILES

\* the lines of a front matter whose key is neither title nor description
PassedThrough(fm) == SelectSeq(fm, LAMBDA line : line.key \notin FmKeys)

\* the values a translated title or description may have: the override
\* configured for the language, the translation of a source value of the
\* key, and the translation of the default metadata value
AllowedValues(k) ==
    {OverrideValue(k) : x \in {k} \cap file_metadata.overrides}
    \cup {TranslatedValue(front_matter[i].val) :
              i \in {n \in 1..Len(front_matter) : front_matter[n].key = k}}
    \cup {TranslatedValue(DefaultValue(k)) : x \in {k} \cap file_metadata.defaults}

\* C12: in the translated front matter every line whose key is not title or
\* description is the source line, and every title or description value is
\* the override configured for the language or the translator's output for
\* the source value, on every path that produces the front matter.
C12_FrontMatterPassthrough ==
    fpc = "done" =>
        /\ PassedThrough(translated_front_matter) = PassedThrough(front_matter)
        /\ \A i \in 1..Len(translated_front_matter) :
              translated_front_matter[i].key \in FmKeys =>
                  translated_front_matter[i].val \in AllowedValues(translated_front_matter[i].key)

\* the positions in c of a line break that is followed by a sentinel line
SentinelLineBreaks(c) ==
    {p \in 4..Len(c) - 3 :
        /\ SubSeq(c, p, p + 3) = <<NL>> \o SENTINEL
        /\ (p + 3 = Len(c) \/ c[p + 4] = NL)}

\* the split of a content by whole sentinel lines
SplitByLines(c) ==
    IF StartsWith(c, SENTINEL \o <<NL>>) /\ SentinelLineBreaks(c) # {}
    THEN LET p == CHOOSE q \in SentinelLineBreaks(c) : \A r \in SentinelLineBreaks(c) : q <= r
         IN  [front_matter |-> SubSeq(c, 1, p + 3),
              body |-> LStripChars(SubSeq(c, p + 4, Len(c)), {NL})]
    ELSE [front_matter |-> None, body |-> c]

\* C13: if the content begins with the sentinel line, front_matter is the
\* text from the start through the next sentinel line and body is what
\* follows without its leading newlines; without a second sentinel line the
\* result is (None, content); an empty front-matter block and lines that
\* merely start with the sentinel included.
C13_SplitBySentinelLines ==
    wpc # "split" /\ wpc # "idle" => split_result = SplitByLines(content)

\* C14: splitting the file written from a split (front matter, blank line,
\* body, strip, newline) returns the same front matter and the same body up
\* to blank lines at its ends.
C14_SplitIdempotent ==
    (wpc = "done" /\ out_front = split_result.front_matter) =>
        /\ resplit_result.front_matter = split_result.front_matter
        /\ Strip(resplit_result.body) = Strip(split_result.body)

\* C15: for one input path two distinct language codes never yield the same
\* output path, the same code yields the same path, and for an input under
\* the docs root the result is docs/<lang>/<relative path>.
C15_PathsCollisionFree ==
    ppc = "done" =>
        /\ lang_a # lang_b => out_a # out_b
        /\ lang_a = lang_b => out_a = out_b
        /\ in_path.root = "docs" =>
              out_a = [root |-> "docs", parts |-> <<lang_a>> \o in_path.parts]

EndsWithOneNewline(text) ==
    /\ text # <<>>
    /\ text[Len(text)] = NL
    /\ (Len(text) > 1 => text[Len(text) - 1] # NL)

\* no blank line at the start or at the end of the text
NoBlankLineAtEnds(text) ==
    LET ls == SplitLines(text)
    IN  /\ ls # <<>>
        /\ Strip(ls[1]) # <<>>
        /\ Strip(ls[Len(ls)]) # <<>>

\* C16 as stated: every written file ends with exactly one newline and has no
\* leading or trailing blank line, whatever the front matter and the body,
\* the empty body included.
C16_OneNewlineNoBlankLines ==
    wpc \in {"resplit", "done"} =>
        EndsWithOneNewline(written) /\ NoBlankLineAtEnds(written)

\* C16 amended: every written file ends with exactly one newline; it has no
\* leading or trailing blank line unless there is no front matter and the
\* body is blank, and then the file is one empty line.
C16_OneNewlineNoBlankLinesUnlessEmpty ==
    wpc \in {"resplit", "done"} =>
        /\ EndsWithOneNewline(written)
        /\ IF out_front = None /\ Strip(split_result.body) = <<>>
           THEN written = <<NL>>
           ELSE NoBlankLineAtEnds(written)

\* a file with front matter and an empty body was written: the strip took
\* the blank line after the front matter away
C16_Witness ==
    /\ wpc = "done"
    /\ out_front # None
    /\ split_result.body = <<>>
    /\ written = out_front \o <<NL>>

\* a row made only of dash, colon, pipe and space characters
IsSeparatorRow(line) ==
    line # <<>> /\ \A k \in 1..Len(line) : line[k] \in SeparatorChars

\* C21: the separator row of a table, its second row, is identical in the
\* output to the input row, for every table, with or without a configured
\* policy, and for any translator.
C21_SeparatorRowUntouched ==
    bpc = "done" =>
        \A n \in 1..Len(find_table_ranges(src)) :
            LET i == find_table_ranges(src)[n][1] + 1
            IN  IsSeparatorRow(src[i]) => Verbatim(i)

\* C22: a level-1 or level-2 heading with a manual translation configured for
\* the target language is output as exactly the configured text, and the line
\* is never passed to translator.translate.
C22_ManualHeadingBypassesProvider ==
    bpc = "done" =>
        \A i \in 1..Len(src) :
            LET manual == ManualAt(src, header_configs, i)
            IN  manual # NoText =>
                    /\ \E k \in OutputOf(i) : OutputOf(i) = {k} /\ translated[k] = manual
                    /\ i \notin sent

\* C23: when one configured entry matches a heading by its literal text and
\* another matches it by its (level, ordinal) position, the manual
\* translation of the text-matching entry is the one that replaces the
\* heading, whatever the order of the entries.
C23_TextMatchPreferred ==
    bpc \in {"scan", "done"} =>
        \A i \in 1..Len(src) : \A a, b \in 1..Len(header_configs) :
            LET h == HeadingAt(src, i)
            IN  /\ h.level # 0
                /\ MatchesText(header_configs[a], h.level, h.text)
                /\ MatchesNumber(header_configs[b], h.level, h.h1_num, h.h2_num)
                /\ header_configs[a].manual # NoText
                /\ header_configs[b].manual # NoText
                => lines[i] = header_configs[a].manual

(***************************************************************************)
(* find_headers_with_numbers: what the claims say of its result.           *)
(***************************************************************************)
\* the indices (from 1) of the lines of ls whose stripped text starts with p
LinesStarting(ls, p) == {i \in 1..Len(ls) : StartsWith(Strip(ls[i]), p)}

Level1Lines == LinesStarting(head_lines, <<"#", " ">>)
Level2Lines == LinesStarting(head_lines, <<"#", "#", " ">>)

\* the level-1 heading that a level-2 heading at line i stands under, 0 when
\* there is none before it
ParentOf(i) == Cardinality({j \in Level1Lines : j < i})

\* C24: level-1 headings are numbered 1..m in document order; level-2
\* headings are numbered 1..n in document order under each level-1 heading,
\* the counter restarting at every level-1 heading; each entry holds the line
\* index and the stripped text; a level-2 heading before the first level-1
\* heading gets no number.
C24_HeadingNumbering ==
    hpc = "done" =>
        /\ DOMAIN h1_dict = 1..Cardinality(Level1Lines)
        /\ \A n \in DOMAIN h1_dict :
              LET i == h1_dict[n][1] + 1
              IN  /\ i \in Level1Lines
                  /\ n = Cardinality({j \in Level1Lines : j <= i})
                  /\ h1_dict[n][2] = Strip(head_lines[i])
        /\ DOMAIN h2_dict = {ParentOf(i) : i \in Level2Lines} \ {0}
        /\ \A p \in DOMAIN h2_dict :
              /\ DOMAIN h2_dict[p] =
                     1..Cardinality({j \in Level2Lines : ParentOf(j) = p})
              /\ \A n \in DOMAIN h2_dict[p] :
                    LET i == h2_dict[p][n][1] + 1
                    IN  /\ i \in Level2Lines
                        /\ ParentOf(i) = p
                        /\ n = Cardinality({j \in Level2Lines :
                                                ParentOf(j) = p /\ j <= i})
                        /\ h2_dict[p][n][2] = Strip(head_lines[i])

\* a document with a level-2 heading before the first level-1 heading and
\* level-2 headings under two level-1 headings
C24_Witness ==
    /\ hpc = "done"
    /\ \E i \in Level2Lines : ParentOf(i) = 0
    /\ 2 \in DOMAIN h2_dict
    /\ Len(h1_dict) = 2

(***************************************************************************)
(* process_content_lines: removable sections.                              *)
(***************************************************************************)
StrippedAt(i) == Strip(LStripChars(content_lines[i], {BOM}))

\* line r is read as a removable header: the skipping before the first
\* header is over when the loop reaches it
RemovableHeaderAt(r) ==
    /\ StrippedAt(r) \in remove_headers
    /\ \/ ~skip_until_first_header
       \/ \E h \in 1..(r - 1) : StartsWith(StrippedAt(h), <<"#">>)

\* a "##" heading that is not itself a removable header
EndingHeadingAt(i) ==
    StartsWith(StrippedAt(i), <<"#", "#">>) /\ StrippedAt(i) \notin remove_headers

\* C30: a removable header and the lines after it are removed only up to the
\* next "##" heading that is not itself a removable header; that heading ends
\* the removable section and is kept in the output.
C30_SectionEndsAtKeptHeading ==
    cpc = "done" =>
        \A r, i \in 1..Len(content_lines) :
            /\ r < i
            /\ RemovableHeaderAt(r)
            /\ EndingHeadingAt(i)
            /\ \A k \in (r + 1)..(i - 1) : ~EndingHeadingAt(k)
            => /\ \A k \in r..(i - 1) : k \notin Range(kept)
               /\ i \in Range(kept)

\* every column of the row is listed in exclude_columns
AllColumnsExcluded(line, cfg) ==
    \A c \in 1..Len(parse_table_line(line)) : c \in cfg.exclude_columns

\* C25: a header or data row in which every column is excluded is still
\* passed to translator.translate, unless the policy has exclude_header, in
\* which case it is restored without a provider call; either way its cell
\* texts are those of the input (stated for the stubs that keep every token).
C25_AllColumnsExcludedRow ==
    bpc = "done" =>
        \A t \in ConfiguredTables : \A i \in t[1]..(t[2] - 1) :
            /\ ~t[3].exclude_table
            /\ i # t[1] + 1
            /\ AllColumnsExcluded(src[i], t[3])
            => /\ IF t[3].exclude_header THEN i \notin sent ELSE i \in sent
               /\ translator \in TokenKeeping =>
                     \E k \in OutputOf(i) :
                         parse_table_line(translated[k]) = parse_table_line(src[i])

\* C26: when the resolved policy of a table has exclude_table, every line of
\* the table is output identical to the input line and none is passed to
\* translator.translate.
C26_ExcludedTableVerbatim ==
    bpc = "done" =>
        \A t \in ConfiguredTables :
            t[3].exclude_table =>
                \A i \in t[1]..(t[2] - 1) : Verbatim(i) /\ i \notin sent

\* an excluded table in a document of which another line went to a provider
\* that changes what it is given
C26_Witness ==
    /\ bpc = "done"
    /\ translator = "up"
    /\ sent # {}
    /\ \E t \in ConfiguredTables : t[3].exclude_table /\ t[2] - t[1] = 3

\* C27: when the response of the provider lacks a placeholder that was
\* substituted before the call, the span falls back to its original text, so
\* every protected text of the input is still present in the output.
C27_DroppedPlaceholderFallsBack ==
    (spc = "restored" /\ translator = "drop" /\ span_map # {}) =>
        /\ span_text = span_in
        /\ \A item \in ProtectedItems(span_in) : Contains(span_text, item)

\* C28: for a body without internal markers and a translator that returns
\* such tokens unchanged, the output holds no __EXCLUDE_COL_n__,
\* __EXCLUDE_HEADER__, __TRANSLATE_HEADER__ or __EXCLUDE_TABLE_LINE_i__ token,
\* for every table policy and row content.
C28_NoMarkerLeaks ==
    (bpc = "done" /\ translator \in TokenKeeping) =>
        \A k \in 1..Len(translated) : \A j \in 1..Len(translated[k]) :
            translated[k][j] \notin MarkerTokens

\* the documents whose read has failed
ReadFailed == {d \in DOMAIN dpc : doc_kind[d] = "unreadable" /\ dpc[d] = "returned"}

\* C29: the progress bar is advanced exactly once for every (document,
\* language) pair, whether the pair succeeds, fails inside
\* translate_single_language, or its document cannot be read: the count is at
\* every moment the number of pairs that are settled, it never exceeds
\* len(md_files) * len(targets), and equals it when all batches have finished.
C29_ProgressAccounting ==
    rpc # "idle" =>
        /\ progress = Cardinality({t \in DOMAIN task : Finished(t)})
                          + Len(targets) * Cardinality(ReadFailed)
        /\ progress <= NumDocs * Len(targets)
        /\ rpc \in {"closing", "finished"} => progress = NumDocs * Len(targets)

\* a finished run with a document that could not be read, a pair that failed
\* and a pair that succeeded
C29_Witness ==
    /\ rpc = "finished"
    /\ ReadFailed # {}
    /\ \E t \in DOMAIN task : task[t] = "failed"
    /\ \E t \in DOMAIN task : task[t] = "done"
    /\ progress = NumDocs * Len(targets)

====
